---- MODULE Spec2Model ----
(***************************************************************************)
(* Model of linkedin_mcp_client/client.py: one LinkedInMCPClient instance  *)
(* used by two asyncio tasks.  Each coroutine is cut at its await points;  *)
(* everything between two awaits is one atomic step of the event loop.     *)
(* The child process / HTTP server is the environment: every line it can   *)
(* put on its stdout, and every reply it can give to a POST, is an input.  *)
(***************************************************************************)
EXTENDS Integers, Sequences, FiniteSets, TLC

\* ---------------------------------------------------------------- bounds
MaxId == 2          \* cap on the request-id counter
MaxProc == 2        \* cap on the number of child processes started
MaxNoise == 1       \* cap on the lines one read discards
MaxBrowser == 3     \* cap on the number of BrowserManager instances created
MaxKeywords == 2    \* cap on the keywords of one /search request
MaxDetails == 2     \* cap on the limit of one /search request
MaxPad == 1         \* cap on the whitespace before and after a posted cookie

\* ------------------------------------------------------- program constants
AUTH_ERROR_CODE == -32000
DEFAULT_ERROR_CODE == -1
INITIALIZE_ID == 1

Tasks == {"a", "b"}
None == 0           \* self.process is None / a message without an id
Transports == {"stdio", "http"}
ToolMethods == {"tools/list", "tools/call"}

\* ------------------------------------------------- lines on child's stdout
\* One line as readline() returns it.  kind:
\*   eof     b""            blank   b"\n"          spaces  b"  \n"
\*   noise   text that is not JSON                 badutf8 bytes that are not UTF-8
\*   scalar  JSON that is not an object (42)       object  a JSON object
\* For an object: id (None = no id member), err (the error member: absent,
\* null, or an object with code -32000 / another code / no code), result.
\* A response has a result or an error (JSON-RPC); the servers that always
\* serialise both members send "error": null next to the result.
\* err: absent | null | auth | other | nocode;  result: absent | payload
Members == {<<"absent", "payload">>, <<"absent", "absent">>, <<"null", "payload">>,
            <<"auth", "absent">>, <<"other", "absent">>, <<"nocode", "absent">>}

Line(k, i, e, r) == [kind |-> k, id |-> i, err |-> e, result |-> r]

PlainLines == {Line(k, None, "absent", "absent") :
                 k \in {"eof", "blank", "spaces", "noise", "badutf8", "scalar"}}
ObjectLines == {Line("object", i, m[1], m[2]) : i \in 0..MaxId, m \in Members}
Lines == PlainLines \cup ObjectLines
NoResp == Line("none", None, "absent", "absent")

\* line.decode().strip(): "undecodable" when decode() raises, "" when only
\* whitespace is left, else the text
DecodeStrip(line) ==
  CASE line.kind = "badutf8" -> "undecodable"
    [] line.kind \in {"blank", "spaces"} -> ""
    [] line.kind = "noise" -> "text"
    [] OTHER -> "json"

\* error.get("code", -1)
ErrorCode(e) ==
  CASE e = "auth" -> AUTH_ERROR_CODE
    [] e = "other" -> -32601
    [] OTHER -> DEFAULT_ERROR_CODE

\* client.py 94-103 / 124-133: what the call does with a parsed response
Classify(response) ==
  IF response.kind = "scalar" THEN "TypeError"
  ELSE IF response.err # "absent"
       THEN IF response.err = "null" THEN "AttributeError"
            ELSE IF ErrorCode(response.err) = AUTH_ERROR_CODE
                 THEN "LinkedInMCPAuthenticationError"
                 ELSE "LinkedInMCPToolError"
       ELSE "Result"

\* one pass of the loop of _read_next_json_message on the line just read:
\* "raise" LinkedInMCPConnectionError, "decode_error", "continue", "return"
ReadStep(line) ==
  IF line.kind = "eof" THEN "raise"
  ELSE IF DecodeStrip(line) = "undecodable" THEN "decode_error"
  ELSE IF DecodeStrip(line) = "" THEN "continue"
  ELSE IF DecodeStrip(line) = "text" THEN "continue"
  ELSE "return"

\* ------------------------------------------------------------------- state
VARIABLES
  transport,    \* self.transport
  process,      \* self.process: None or the number of the child held
  alive,        \* the child held still runs and reads its stdin
  request_id,   \* self.request_id
  started,      \* number of children Popen has started
  terminated,   \* per child: number of terminate() calls
  killed,       \* children that got kill()
  wire,         \* requests written to self.process.stdin (proc > 0), or POSTed (proc = 0)
  session,      \* spec 4.3 state of the client (history variable)
  pc,           \* per task: idle | hs_read | read | post
  reqId,        \* per task: id of the request the running call wrote
  skipped,      \* per task: lines the running read has discarded
  last,         \* the operation that finished last: what it returned / raised
  \* drivers/browser.py, the server-side browser singleton
  _browser,     \* the module global: None or the number of a BrowserManager
  made,         \* number of BrowserManager instances constructed
  bstatus,      \* per instance: none | new | started | closed
  loggedIn,     \* instances whose page is logged in to the site now
  passed,       \* instances that get_or_create_browser authenticated (history)
  sessionFile,  \* the persisted session: absent | valid | expired | corrupt
  cookie,       \* what get_linkedin_cookie() gives: none | valid | invalid
  bt,           \* per task: position and locals of the running browser call
  blast,        \* the browser call that finished last
  tx,           \* tools/job.py, per task: how far the running tool has got
  \* one call followed from the facade method to the value it returns
  cx,           \* arguments, request text, reply text, value returned / raised
  \* backend/main.py, one request to the /search endpoint
  sx,           \* the keywords of the request and how far each has got
  \* backend: the cookie file of /api/session and get_server_parameters()
  fx            \* the file, the cookie posted last, the environment built last

cvars == <<transport, process, alive, request_id, started, terminated, killed,
           wire, session, pc, reqId, skipped, last>>

bvars == <<_browser, made, bstatus, loggedIn, passed, sessionFile, cookie, bt, blast, tx>>

pvars == <<cx, sx, fx>>

vars == <<cvars, bvars, pvars>>

client == <<transport, process, alive, request_id, started, terminated, killed>>

Free(t) == pc[t] = "idle"

\* the operation o of task t returns / raises out; proc is self.process as
\* the step found it, line the line that ended its read (NoResp: none read)
Finish(t, o, out, line) ==
  /\ pc' = [pc EXCEPT ![t] = "idle"]
  /\ reqId' = [reqId EXCEPT ![t] = None]
  /\ skipped' = [skipped EXCEPT ![t] = 0]
  /\ last' = [op |-> o, proc |-> process, reqId |-> reqId[t], outcome |-> out,
              line |-> line, skipped |-> skipped[t]]

\* task t suspends at an await in state p, having written request id i
Await(t, p, i) ==
  /\ pc' = [pc EXCEPT ![t] = p]
  /\ reqId' = [reqId EXCEPT ![t] = i]
  /\ skipped' = [skipped EXCEPT ![t] = 0]
  /\ UNCHANGED last

\* the loop of _read_next_json_message goes round once more
Discard(t) ==
  /\ skipped[t] < MaxNoise
  /\ skipped' = [skipped EXCEPT ![t] = @ + 1]
  /\ UNCHANGED <<pc, reqId, last>>

\* a task that runs no browser call
BtIdle == [pc |-> "idle", op |-> "none", loc |-> None, sess |-> "skipped",
           cook |-> "notread", nav |-> FALSE, found |-> FALSE]

BlastNone == [op |-> "none", ret |-> None, outcome |-> "none", loc |-> None,
              sess |-> "skipped", cook |-> "notread", nav |-> FALSE, found |-> FALSE]

\* a task that runs no tool: scraper is the instance whose page the scraper
\* was constructed on, raisedIn the statement of the tool that raised
TxIdle == [pc |-> "idle", name |-> "none", ensured |-> FALSE, scraper |-> None,
           raisedIn |-> "none", exc |-> "none", result |-> <<"none">>]

\* no call is being followed
CxIdle == [pc |-> "idle", op |-> "none", given |-> <<>>, arguments |-> <<>>,
           params |-> <<>>, sent |-> <<>>, stub |-> "none", served |-> <<>>,
           reply |-> <<>>,
           outcome |-> "none", value |-> <<>>, args |-> <<>>]

\* no cookie file, LINKEDIN_COOKIE not in the environment of the backend
FxIdle == [exists |-> FALSE, file |-> <<>>, posted |-> <<>>,
           inherited |-> [set |-> FALSE, value |-> <<>>],
           ran |-> FALSE, env |-> [set |-> FALSE, value |-> <<>>]]

\* no request to /search is being served
SxIdle == [pc |-> "idle", n |-> 0, limit |-> 0, time_posted |-> "None", k |-> 0,
           sessions |-> 0, started |-> <<>>, searched |-> {}, pending |-> <<>>,
           fetched |-> <<>>, paused |-> {}, arguments |-> <<>>, urls |-> 0,
           noid |-> {}, calls |-> {}, details |-> <<>>,
           ret |-> [how |-> "none", jobs |-> <<>>, info |-> "none"],
           found |-> <<>>, jobs |-> <<>>, count |-> 0, resp |-> "none"]

\* browser.py 46-48: no browser; no session file and no cookie on this host
BrowserIdle ==
  /\ _browser = None
  /\ made = 0
  /\ bstatus = [i \in 1..MaxBrowser |-> "none"]
  /\ loggedIn = {}
  /\ passed = {}
  /\ sessionFile = "absent"
  /\ cookie = "none"
  /\ bt = [t \in Tasks |-> BtIdle]
  /\ blast = BlastNone
  /\ tx = [t \in Tasks |-> TxIdle]

Init ==
  /\ transport \in Transports
  /\ process = None
  /\ alive = FALSE
  /\ request_id = 0
  /\ started = 0
  /\ terminated = [p \in 1..MaxProc |-> 0]
  /\ killed = {}
  /\ wire = <<>>
  /\ session = "Unconnected"
  /\ pc = [t \in Tasks |-> "idle"]
  /\ reqId = [t \in Tasks |-> None]
  /\ skipped = [t \in Tasks |-> 0]
  /\ last = [op |-> "none", proc |-> None, reqId |-> None, outcome |-> "none",
             line |-> NoResp, skipped |-> 0]
  /\ BrowserIdle
  /\ cx = CxIdle
  /\ sx = SxIdle
  /\ fx = FxIdle

WireRec(p, m, i) == [proc |-> p, method |-> m, id |-> i]

\* self.request_id += 1; return self.request_id
_get_next_id == request_id + 1

\* variant: connect() starts a child whether or not it holds one
connect_stdio_always_starts(t) ==
  /\ UNCHANGED <<bvars, pvars>>
  /\ Free(t)
  /\ transport = "stdio"
  /\ UNCHANGED <<transport, request_id, terminated, killed>>
  /\ \/ /\ Finish(t, "connect", "LinkedInMCPConnectionError", NoResp)
        /\ UNCHANGED <<process, alive, started, wire, session>>
     \/ /\ started < MaxProc
        /\ started' = started + 1
        /\ process' = started + 1
        /\ session' = "Handshaking"
        /\ \/ /\ alive' = TRUE
              /\ wire' = <<WireRec(started + 1, "initialize", INITIALIZE_ID)>>
              /\ Await(t, "hs_read", INITIALIZE_ID)
           \/ /\ alive' = FALSE
              /\ Finish(t, "connect", "LinkedInMCPConnectionError", NoResp)
              /\ wire' = <<>>

\* ------------------------------------------------------------- connect()
\* stdio branch of connect(), up to the first await inside _initialize().
\* Popen may fail (command not found); the write of the initialize request
\* fails when the child has exited at once.  Every exception is re-raised by
\* connect() as LinkedInMCPConnectionError; self.process is not reset.
connect_stdio(t) ==
  /\ UNCHANGED <<bvars, pvars>>
  /\ Free(t)
  /\ transport = "stdio"
  /\ UNCHANGED <<transport, request_id, terminated, killed>>
  /\ IF process # None
     THEN /\ Finish(t, "connect", "None", NoResp)
          /\ UNCHANGED <<process, alive, started, wire, session>>
     ELSE \/ /\ Finish(t, "connect", "LinkedInMCPConnectionError", NoResp)
             /\ UNCHANGED <<process, alive, started, wire, session>>
          \/ /\ started < MaxProc
             /\ started' = started + 1
             /\ process' = started + 1
             /\ session' = "Handshaking"
             /\ \/ /\ alive' = TRUE
                   /\ wire' = <<WireRec(started + 1, "initialize", INITIALIZE_ID)>>
                   /\ Await(t, "hs_read", INITIALIZE_ID)
                \/ /\ alive' = FALSE
                   /\ Finish(t, "connect", "LinkedInMCPConnectionError", NoResp)
                   /\ wire' = <<>>

\* the child exits by itself (environment)
child_exits ==
  /\ UNCHANGED <<bvars, pvars>>
  /\ process # None
  /\ alive
  /\ alive' = FALSE
  /\ UNCHANGED <<transport, process, request_id, started, terminated, killed,
                 wire, session, pc, reqId, skipped, last>>

\* variant: a probe that fails at the network level is reported
connect_http_raises(t) ==
  /\ UNCHANGED <<bvars, pvars>>
  /\ Free(t)
  /\ transport = "http"
  /\ \E probe \in {"ok", "non2xx", "network", "timeout"} :
       IF probe = "network"
       THEN /\ Finish(t, "connect", "LinkedInMCPConnectionError", NoResp)
            /\ UNCHANGED session
       ELSE /\ session' = "Ready"
            /\ Finish(t, "connect", "None", NoResp)
  /\ UNCHANGED <<client, wire>>

\* http branch of connect(): the health probe, whose every outcome is ignored
connect_http(t) ==
  /\ UNCHANGED <<bvars, pvars>>
  /\ Free(t)
  /\ transport = "http"
  /\ \E probe \in {"ok", "non2xx", "network", "timeout"} :
       /\ session' = "Ready"
       /\ Finish(t, "connect", "None", NoResp)
  /\ UNCHANGED <<client, wire>>

\* variant: connect() wraps only the errors of the handshake protocol
_initialize_read_unwrapped(t) ==
  /\ UNCHANGED <<bvars, pvars>>
  /\ pc[t] = "hs_read"
  /\ UNCHANGED client
  /\ \E line \in Lines :
       CASE ReadStep(line) = "continue" /\ process # None ->
              /\ Discard(t)
              /\ UNCHANGED <<wire, session>>
         [] ReadStep(line) = "return" /\ line.kind = "object"
              /\ line.err = "absent" /\ process # None ->
              IF alive
              THEN /\ wire' = Append(wire, WireRec(process, "notifications/initialized", None))
                   /\ session' = "Ready"
                   /\ Finish(t, "connect", "None", line)
              ELSE /\ Finish(t, "connect", "BrokenPipeError", line)
                   /\ UNCHANGED <<wire, session>>
         [] ReadStep(line) = "decode_error" ->
              /\ Finish(t, "connect", "UnicodeDecodeError", line)
              /\ UNCHANGED <<wire, session>>
         [] OTHER ->
              /\ Finish(t, "connect", "LinkedInMCPConnectionError", line)
              /\ UNCHANGED <<wire, session>>

\* _initialize() from the await of _read_next_json_message() on: one line
\* arrives.  A discarded line re-enters the loop, which evaluates
\* self.process.stdout again (AttributeError when a disconnect() ran
\* meanwhile).  After the response the notification goes to self.process.
_initialize_read(t) ==
  /\ UNCHANGED <<bvars, pvars>>
  /\ pc[t] = "hs_read"
  /\ UNCHANGED client
  /\ \E line \in Lines :
       CASE ReadStep(line) = "continue" /\ process # None ->
              /\ Discard(t)
              /\ UNCHANGED <<wire, session>>
         [] ReadStep(line) = "return" /\ line.kind = "object"
              /\ line.err = "absent" /\ process # None ->
              IF alive
              THEN /\ wire' = Append(wire, WireRec(process, "notifications/initialized", None))
                   /\ session' = "Ready"
                   /\ Finish(t, "connect", "None", line)
              ELSE /\ Finish(t, "connect", "LinkedInMCPConnectionError", line)
                   /\ UNCHANGED <<wire, session>>
         [] OTHER ->
              /\ Finish(t, "connect", "LinkedInMCPConnectionError", line)
              /\ UNCHANGED <<wire, session>>

\* ------------------------------------------- list_tools() / call_tool()
\* _send_request_stdio up to its await: the None check, the id, the write
\* (BrokenPipeError when the child is gone; the id is already allocated).
_send_request_stdio(t) ==
  /\ UNCHANGED <<bvars, pvars>>
  /\ Free(t)
  /\ transport = "stdio"
  /\ UNCHANGED <<transport, process, alive, started, terminated, killed, session>>
  /\ IF process = None
     THEN /\ Finish(t, "call", "LinkedInMCPConnectionError", NoResp)
          /\ UNCHANGED <<request_id, wire>>
     ELSE /\ request_id < MaxId
          /\ request_id' = _get_next_id
          /\ IF alive
             THEN /\ \E method \in ToolMethods :
                       wire' = Append(wire, WireRec(process, method, _get_next_id))
                  /\ Await(t, "read", _get_next_id)
             ELSE /\ Finish(t, "call", "BrokenPipeError", NoResp)
                  /\ UNCHANGED wire

\* variant: at end-of-file the request is written once more and the read
\* goes on
_send_request_stdio_read_retries(t) ==
  /\ UNCHANGED <<bvars, pvars>>
  /\ pc[t] = "read"
  /\ UNCHANGED <<client, session>>
  /\ \E line \in Lines :
       CASE ReadStep(line) = "raise" /\ skipped[t] < MaxNoise ->
              /\ wire' = Append(wire, WireRec(process, "tools/call", reqId[t]))
              /\ Discard(t)
         [] ReadStep(line) = "raise" ->
              /\ Finish(t, "call", "LinkedInMCPConnectionError", line)
              /\ UNCHANGED wire
         [] ReadStep(line) = "decode_error" ->
              /\ Finish(t, "call", "UnicodeDecodeError", line)
              /\ UNCHANGED wire
         [] ReadStep(line) = "continue" ->
              /\ IF process = None
                 THEN Finish(t, "call", "AttributeError", line)
                 ELSE Discard(t)
              /\ UNCHANGED wire
         [] OTHER ->
              /\ Finish(t, "call", Classify(line), line)
              /\ UNCHANGED wire

\* variant: a response with an error descriptor makes the client drop its
\* child
_send_request_stdio_read_drops_process(t) ==
  /\ UNCHANGED <<bvars, pvars>>
  /\ pc[t] = "read"
  /\ UNCHANGED <<transport, request_id, started, terminated, killed, wire, session>>
  /\ \E line \in Lines :
       CASE ReadStep(line) = "raise" ->
              /\ Finish(t, "call", "LinkedInMCPConnectionError", line)
              /\ UNCHANGED <<process, alive>>
         [] ReadStep(line) = "decode_error" ->
              /\ Finish(t, "call", "UnicodeDecodeError", line)
              /\ UNCHANGED <<process, alive>>
         [] ReadStep(line) = "continue" ->
              /\ IF process = None
                 THEN Finish(t, "call", "AttributeError", line)
                 ELSE Discard(t)
              /\ UNCHANGED <<process, alive>>
         [] OTHER ->
              /\ Finish(t, "call", Classify(line), line)
              /\ IF Classify(line) \in {"LinkedInMCPAuthenticationError", "LinkedInMCPToolError"}
                 THEN process' = None /\ alive' = FALSE
                 ELSE UNCHANGED <<process, alive>>

\* _send_request_stdio from the await of _read_next_json_message() on
_send_request_stdio_read(t) ==
  /\ UNCHANGED <<bvars, pvars>>
  /\ pc[t] = "read"
  /\ UNCHANGED <<client, wire, session>>
  /\ \E line \in Lines :
       CASE ReadStep(line) = "raise" ->
              Finish(t, "call", "LinkedInMCPConnectionError", line)
         [] ReadStep(line) = "decode_error" ->
              Finish(t, "call", "UnicodeDecodeError", line)
         [] ReadStep(line) = "continue" ->
              IF process = None
              THEN Finish(t, "call", "AttributeError", line)
              ELSE Discard(t)
         [] OTHER ->
              Finish(t, "call", Classify(line), line)

\* _send_request_http up to the await of client.post()
_send_request_http(t) ==
  /\ UNCHANGED <<bvars, pvars>>
  /\ Free(t)
  /\ transport = "http"
  /\ request_id < MaxId
  /\ request_id' = _get_next_id
  /\ \E method \in ToolMethods :
       wire' = Append(wire, WireRec(None, method, _get_next_id))
  /\ Await(t, "post", _get_next_id)
  /\ UNCHANGED <<transport, process, alive, started, terminated, killed, session>>

\* what a POST can come back with: a network failure (httpx.RequestError),
\* a non-2xx status, or a 2xx status with a body
HttpReplies == {[status |-> s, body |-> NoResp] : s \in {"network", "non2xx"}}
               \cup {[status |-> "2xx", body |-> b] :
                       b \in ObjectLines \cup {Line("noise", None, "absent", "absent"),
                                               Line("scalar", None, "absent", "absent")}}

\* _send_request_http from the await of client.post() on.  Only
\* httpx.RequestError is caught; raise_for_status() raises
\* httpx.HTTPStatusError and response.json() raises json.JSONDecodeError.
HttpOutcome(reply) ==
  CASE reply.status = "network" -> "LinkedInMCPConnectionError"
    [] reply.status = "non2xx" -> "HTTPStatusError"
    [] reply.body.kind = "noise" -> "JSONDecodeError"
    [] OTHER -> Classify(reply.body)

_send_request_http_reply(t) ==
  /\ UNCHANGED <<bvars, pvars>>
  /\ pc[t] = "post"
  /\ \E reply \in HttpReplies :
       Finish(t, "call", HttpOutcome(reply),
              IF reply.status = "2xx" THEN reply.body
              ELSE Line(reply.status, None, "absent", "absent"))
  /\ UNCHANGED <<client, wire, session>>

\* ---------------------------------------------------------- disconnect()
\* disconnect() that forgets to clear self.process (line 213 left out)
disconnect_keeps_handle(t) ==
  /\ UNCHANGED <<bvars, pvars>>
  /\ Free(t)
  /\ Finish(t, "disconnect", "None", NoResp)
  /\ UNCHANGED <<transport, request_id, started, process>>
  /\ IF process # None
     THEN /\ terminated' = [terminated EXCEPT ![process] = @ + 1]
          /\ \E exited \in BOOLEAN :
               killed' = IF exited \/ ~alive THEN killed ELSE killed \cup {process}
          /\ alive' = FALSE
          /\ wire' = <<>>
          /\ session' = "Closed"
     ELSE /\ session' = IF transport = "http" /\ session = "Ready"
                        THEN "Closed" ELSE session
          /\ UNCHANGED <<alive, terminated, killed, wire>>

\* disconnect() that kills without waiting for the grace period
disconnect_kills_at_once(t) ==
  /\ UNCHANGED <<bvars, pvars>>
  /\ Free(t)
  /\ Finish(t, "disconnect", "None", NoResp)
  /\ UNCHANGED <<transport, request_id, started>>
  /\ IF process # None
     THEN /\ terminated' = [terminated EXCEPT ![process] = @ + 1]
          /\ killed' = killed \cup {process}
          /\ process' = None
          /\ alive' = FALSE
          /\ wire' = <<>>
          /\ session' = "Closed"
     ELSE /\ session' = IF transport = "http" /\ session = "Ready"
                        THEN "Closed" ELSE session
          /\ UNCHANGED <<process, alive, terminated, killed, wire>>

\* no await inside: terminate(), wait(timeout=5), kill() on timeout,
\* self.process = None.  A child that had exited is waited for at once.
disconnect(t) ==
  /\ UNCHANGED <<bvars, pvars>>
  /\ Free(t)
  /\ Finish(t, "disconnect", "None", NoResp)
  /\ UNCHANGED <<transport, request_id, started>>
  /\ IF process # None
     THEN /\ terminated' = [terminated EXCEPT ![process] = @ + 1]
          /\ \E exited \in BOOLEAN :
               killed' = IF exited \/ ~alive THEN killed ELSE killed \cup {process}
          /\ process' = None
          /\ alive' = FALSE
          /\ wire' = <<>>
          /\ session' = "Closed"
     ELSE /\ session' = IF transport = "http" /\ session = "Ready"
                        THEN "Closed" ELSE session
          /\ UNCHANGED <<process, alive, terminated, killed, wire>>

Next ==
  \/ child_exits
  \/ \E t \in Tasks :
       \/ connect_stdio(t)
       \/ connect_http(t)
       \/ _initialize_read(t)
       \/ _send_request_stdio(t)
       \/ _send_request_stdio_read(t)
       \/ _send_request_http(t)
       \/ _send_request_http_reply(t)
       \/ disconnect(t)

Spec == Init /\ [][Next]_vars

TypeOK ==
  /\ transport \in Transports
  /\ process \in 0..MaxProc
  /\ request_id \in 0..MaxId
  /\ started \in 0..MaxProc
  /\ pc \in [Tasks -> {"idle", "hs_read", "read", "post"}]

\* =================================================================== claims
IdsOnWire == {i \in DOMAIN wire : wire[i].id # None}
InFlight == {t \in Tasks : pc[t] = "read"}
Delivered == {"Result", "LinkedInMCPAuthenticationError", "LinkedInMCPToolError"}
StdioCallThatRead == /\ transport = "stdio"
                     /\ last.op = "call"
                     /\ last.reqId # None
                     /\ last.line # NoResp
ToolRequestWritten == /\ Len(wire') = Len(wire) + 1
                      /\ wire'[Len(wire')].method \in ToolMethods
CallStarts == \E t \in Tasks : _send_request_stdio(t) \/ _send_request_http(t)

\* C1: on a stdio client at most one call is between its write and its read
\* at any time, and no call is handed the response carrying the id of
\* another call that is still waiting.
C1_OneRequestInFlight ==
  transport = "stdio" =>
    /\ Cardinality(InFlight) <= 1
    /\ (last.op = "call" /\ last.outcome \in Delivered /\ last.line.id # last.reqId)
         => \A t \in InFlight : reqId[t] # last.line.id

\* C2: within one open session the ids of the requests on the wire start at 1
\* and are strictly increasing, the initialize request included.
C2_IdsStrictlyIncreasing ==
  /\ \A i, j \in IdsOnWire : i < j => wire[i].id < wire[j].id
  /\ IdsOnWire # {} => wire[1].id = 1

\* C3: the response delivered to a call carries the id of the request that
\* call wrote.
C3_ResponseIdMatchesRequest ==
  (last.op = "call" /\ last.outcome \in Delivered) => last.line.id = last.reqId

\* C4: a tool request is written only in state Ready; a call started in any
\* other state raises LinkedInMCPConnectionError and writes nothing.
C4_NoToolRequestUnlessReady ==
  [][/\ ToolRequestWritten => session = "Ready"
     /\ (CallStarts /\ session # "Ready")
          => wire' = wire /\ last'.op = "call"
             /\ last'.outcome = "LinkedInMCPConnectionError"]_vars

\* C5: a response object with error code -32000 raises
\* LinkedInMCPAuthenticationError, with any other non-null error raises
\* LinkedInMCPToolError, and with no error (or a null one) returns the result.
C5_ErrorCodeMapping ==
  (last.op = "call" /\ last.line.kind = "object") =>
    last.outcome = CASE last.line.err = "auth" -> "LinkedInMCPAuthenticationError"
                     [] last.line.err \in {"other", "nocode"} -> "LinkedInMCPToolError"
                     [] OTHER -> "Result"

\* C6: no child process is sent terminate() more than once, and a
\* disconnect() on a client that is Closed or was never connected raises
\* nothing, signals no process and changes nothing of the client.
C6_DisconnectIdempotent ==
  /\ [](\A p \in 1..MaxProc : terminated[p] <= 1 /\ (p \in killed => terminated[p] = 1))
  /\ [][(/\ last'.op = "disconnect"
         /\ last' # last
         /\ session \in {"Closed", "Unconnected"})
        => /\ last'.outcome = "None"
           /\ UNCHANGED <<transport, process, alive, request_id, started,
                          terminated, killed, wire, session>>]_vars

\* a disconnect() has run on a client that was already Closed, after an
\* earlier disconnect() terminated the child
C6_Witness ==
  /\ last.op = "disconnect"
  /\ last.proc = None
  /\ session = "Closed"
  /\ transport = "stdio"
  /\ \E p \in 1..MaxProc : terminated[p] = 1

\* C7: a stdio call is never ended by an empty or non-JSON line: such lines
\* are discarded, and the call ends on the first line that parses as JSON
\* (or on end-of-file), raising no decoding or parse error.
C7_NoiseDiscarded ==
  StdioCallThatRead =>
    /\ last.line.kind \in {"object", "scalar", "eof"}
    /\ last.outcome \notin {"UnicodeDecodeError", "JSONDecodeError"}

\* C8: (a) a stdio call whose read ends without a line that parses as JSON
\* raises LinkedInMCPConnectionError; (b) a stdio call on a client without a
\* process raises LinkedInMCPConnectionError, writes nothing and leaves the
\* request-id counter alone.
C8_ConnectionErrorOnEofOrNoProcess ==
  /\ []((StdioCallThatRead /\ last.line.kind \notin {"object", "scalar"})
          => last.outcome = "LinkedInMCPConnectionError")
  /\ [][(\E t \in Tasks : _send_request_stdio(t)) /\ process = None
        => /\ last'.outcome = "LinkedInMCPConnectionError"
           /\ wire' = wire
           /\ request_id' = request_id]_vars

\* C9: an http call whose POST fails at the network level or gets a non-2xx
\* status raises LinkedInMCPConnectionError; a 2xx response with an error
\* descriptor is mapped to AuthenticationError / ToolError.
C9_HttpFailuresAreConnectionErrors ==
  (transport = "http" /\ last.op = "call") =>
    /\ last.line.kind \in {"network", "non2xx"}
         => last.outcome = "LinkedInMCPConnectionError"
    /\ (last.line.kind = "object" /\ last.line.err = "auth")
         => last.outcome = "LinkedInMCPAuthenticationError"
    /\ (last.line.kind = "object" /\ last.line.err \in {"other", "nocode"})
         => last.outcome = "LinkedInMCPToolError"

\* C10: on the child's stdin the initialize request comes first, the
\* initialized notification (without id) after it, and every tools/list or
\* tools/call request after the notification; a connect() that performed
\* the handshake returns normally only with the notification written.
C10_HandshakeOrder ==
  transport = "stdio" =>
    /\ \A i \in DOMAIN wire :
         /\ wire[i].method = "initialize" => i = 1
         /\ wire[i].method = "notifications/initialized" =>
              i = 2 /\ wire[1].method = "initialize" /\ wire[i].id = None
         /\ wire[i].method \in ToolMethods =>
              \E j \in 1..(i - 1) : wire[j].method = "notifications/initialized"
    /\ (last.op = "connect" /\ last.outcome = "None" /\ last.line.kind = "object"
        /\ process = last.proc)
         => \E j \in DOMAIN wire : wire[j].method = "notifications/initialized"

\* ------------------------------------------------------------- session()
\* async with client.session(): connect() before the try, the body inside
\* it, disconnect() in the finally.  One task uses the client only this way.
SessionTask == "a"

\* the body of the with block is running or has just run a call
InScope ==
  \/ last.op = "connect" /\ last.outcome = "None"
  \/ last.op = "call"

\* await self.connect(), outside the try
session_enter(t) ==
  /\ ~InScope
  /\ connect_stdio(t) \/ connect_http(t)

\* the with body: calls on the yielded client
session_body(t) ==
  /\ InScope
  /\ _send_request_stdio(t) \/ _send_request_http(t)

\* finally: await self.disconnect(), after the body returned or raised
session_exit(t) ==
  /\ InScope
  /\ disconnect(t)

NextSession ==
  \/ child_exits
  \/ session_enter(SessionTask)
  \/ _initialize_read(SessionTask)
  \/ session_body(SessionTask)
  \/ _send_request_stdio_read(SessionTask)
  \/ _send_request_http_reply(SessionTask)
  \/ session_exit(SessionTask)

SpecSession == Init /\ [][NextSession]_vars

\* the scope of session() has ended: its finally ran, or connect() raised
SessionEnded ==
  /\ Free(SessionTask)
  /\ \/ last.op = "disconnect"
     \/ last.op = "connect" /\ last.outcome = "LinkedInMCPConnectionError"

\* C11: on stdio a JSON object whose id differs from the id of the request
\* the call wrote (or that has no id) is not accepted as the response: the
\* call raises LinkedInMCPConnectionError.
C11_UnmatchedIdIsConnectionError ==
  (transport = "stdio" /\ last.op = "call" /\ last.line.kind = "object"
   /\ last.line.id # last.reqId)
    => last.outcome = "LinkedInMCPConnectionError"

\* C12: when the scope opened by session() has ended, whether by the finally
\* or by connect() raising, the client holds no child process.
C12_SessionReleasesProcess ==
  SessionEnded => process = None

\* C13: a child is killed only after terminate() was sent to it; a
\* disconnect() that finds a process sends terminate(), kills only a child
\* that was still running, signals no other child and leaves no handle.
C13_TerminateThenKill ==
  /\ [](\A p \in killed : terminated[p] >= 1)
  /\ [][(last'.op = "disconnect" /\ last' # last /\ process # None)
        => /\ terminated'[process] = terminated[process] + 1
           /\ (process \in killed' => alive)
           /\ killed' \ killed \subseteq {process}
           /\ process' = None]_vars

\* a disconnect() has terminated and then killed the child it held
C13_Witness ==
  /\ last.op = "disconnect"
  /\ last.proc # None
  /\ last.proc \in killed
  /\ terminated[last.proc] = 1
  /\ process = None

\* ============================================ drivers/browser.py (server)
\* The module global _browser and the coroutines around it, run by the
\* tasks of one server process.  Each coroutine is cut at its awaits; the
\* statements between two awaits read the global _browser as it is then.
\* Any use of a closed BrowserManager raises; _browser.x on None raises
\* AttributeError.  loc is the instance the pending await works on.
SessionFiles == {"absent", "valid", "expired", "corrupt"}
Cookies == {"none", "valid", "invalid"}
InitPcs == {"start", "load", "goto", "check", "login"}

InitBrowser ==
  /\ transport = "stdio"
  /\ process = None
  /\ alive = FALSE
  /\ request_id = 0
  /\ started = 0
  /\ terminated = [p \in 1..MaxProc |-> 0]
  /\ killed = {}
  /\ wire = <<>>
  /\ session = "Unconnected"
  /\ pc = [t \in Tasks |-> "idle"]
  /\ reqId = [t \in Tasks |-> None]
  /\ skipped = [t \in Tasks |-> 0]
  /\ last = [op |-> "none", proc |-> None, reqId |-> None, outcome |-> "none",
             line |-> NoResp, skipped |-> 0]
  /\ _browser = None
  /\ made = 0
  /\ bstatus = [i \in 1..MaxBrowser |-> "none"]
  /\ loggedIn = {}
  /\ passed = {}
  /\ sessionFile \in SessionFiles
  /\ cookie \in Cookies
  /\ bt = [t \in Tasks |-> BtIdle]
  /\ blast = BlastNone
  /\ tx = [t \in Tasks |-> TxIdle]
  /\ cx = CxIdle
  /\ sx = SxIdle
  /\ fx = FxIdle

\* the call of task t, whose locals are r, returns ret / raises out
BFinish(t, r, out, ret) ==
  /\ bt' = [bt EXCEPT ![t] = BtIdle]
  /\ blast' = [op |-> r.op, ret |-> ret, outcome |-> out, loc |-> r.loc,
               sess |-> r.sess, cook |-> r.cook, nav |-> r.nav, found |-> r.found]

\* task t suspends at the await p, which works on instance i
BAwait(t, r, p, i) ==
  /\ bt' = [bt EXCEPT ![t] = [r EXCEPT !.pc = p, !.loc = i]]
  /\ UNCHANGED blast

\* get_or_create_browser returns b to its caller: to the tool (op get), to
\* validate_session, which awaits is_logged_in(browser.page), or to
\* check_rate_limit, which awaits detect_rate_limit(browser.page)
Returned(t, r, b) ==
  CASE r.op = "get" -> BFinish(t, r, "Returned", b)
    [] r.op = "ensure" -> BAwait(t, r, "vcheck", b)
    [] OTHER -> BAwait(t, r, "rcheck", b)

\* variant: the cookie is never tried
CookieStage_never_tries(t, r) ==
  BFinish(t, [r EXCEPT !.cook = "none"], "AuthenticationError", None)

\* browser.py 157-176: priority 2, the cookie; r.sess says how priority 1 ended
CookieStage(t, r) ==
  IF cookie = "none"
  THEN BFinish(t, [r EXCEPT !.cook = "none"], "AuthenticationError", None)
  ELSE IF _browser = None
       THEN BFinish(t, [r EXCEPT !.cook = "failed"], "AuthenticationError", None)
       ELSE BAwait(t, [r EXCEPT !.cook = "trying", !.nav = TRUE], "login", _browser)

\* browser.py 74-132: the singleton test, else construct and await start()
GocEnter(t, o) ==
  /\ UNCHANGED <<cvars, pvars, loggedIn, passed, sessionFile, cookie>>
  /\ IF _browser # None
     THEN /\ Returned(t, [BtIdle EXCEPT !.op = o, !.found = TRUE], _browser)
          /\ UNCHANGED <<_browser, made, bstatus>>
     ELSE /\ made < MaxBrowser
          /\ made' = made + 1
          /\ _browser' = made + 1
          /\ bstatus' = [bstatus EXCEPT ![made + 1] = "new"]
          /\ BAwait(t, [BtIdle EXCEPT !.op = o], "start", made + 1)

get_or_create_browser(t) ==
  /\ bt[t].pc = "idle"
  /\ GocEnter(t, "get")

\* ensure_authenticated -> validate_session -> get_or_create_browser
ensure_authenticated(t) ==
  /\ bt[t].pc = "idle"
  /\ GocEnter(t, "ensure")

check_rate_limit(t) ==
  /\ bt[t].pc = "idle"
  /\ GocEnter(t, "rate")

\* start() is done; session_path.exists(); load_session is awaited
start_done(t) ==
  /\ bt[t].pc = "start"
  /\ UNCHANGED <<cvars, pvars, _browser, made, loggedIn, passed, sessionFile, cookie>>
  /\ LET r == bt[t] IN
       IF bstatus[r.loc] = "closed"
       THEN /\ BFinish(t, r, "BrowserError", None)
            /\ UNCHANGED bstatus
       ELSE /\ bstatus' = [bstatus EXCEPT ![r.loc] = "started"]
            /\ IF sessionFile = "absent"
               THEN CookieStage(t, [r EXCEPT !.sess = "absent"])
               ELSE IF _browser = None
                    THEN CookieStage(t, [r EXCEPT !.sess = "failed"])
                    ELSE BAwait(t, [r EXCEPT !.sess = "trying"], "load", _browser)

\* load_session is done (it raises on a corrupt file); route, timeout,
\* and page.goto(feed) is awaited
load_done(t) ==
  /\ bt[t].pc = "load"
  /\ UNCHANGED <<cvars, pvars, _browser, made, bstatus, passed, sessionFile, cookie>>
  /\ LET r == bt[t] IN
       IF bstatus[r.loc] = "closed" \/ sessionFile = "corrupt"
       THEN /\ CookieStage(t, [r EXCEPT !.sess = "failed"])
            /\ UNCHANGED loggedIn
       ELSE /\ loggedIn' = IF sessionFile = "valid"
                           THEN loggedIn \cup {r.loc} ELSE loggedIn
            /\ IF _browser = None
               THEN CookieStage(t, [r EXCEPT !.sess = "failed"])
               ELSE BAwait(t, [r EXCEPT !.nav = TRUE], "goto", _browser)

\* goto is done; is_logged_in(_browser.page) is awaited
goto_done(t) ==
  /\ bt[t].pc = "goto"
  /\ UNCHANGED <<cvars, pvars, _browser, made, bstatus, loggedIn, passed, sessionFile, cookie>>
  /\ LET r == bt[t] IN
       IF bstatus[r.loc] = "closed" \/ _browser = None
       THEN CookieStage(t, [r EXCEPT !.sess = "failed"])
       ELSE BAwait(t, r, "check", _browser)

\* variant: a loaded session that is not logged in raises at once
check_done_no_fallback(t) ==
  /\ bt[t].pc = "check"
  /\ UNCHANGED <<cvars, pvars, _browser, made, bstatus, loggedIn, sessionFile, cookie>>
  /\ LET r == bt[t] IN
       IF bstatus[r.loc] = "closed"
       THEN /\ CookieStage(t, [r EXCEPT !.sess = "failed"])
            /\ UNCHANGED passed
       ELSE IF r.loc \in loggedIn
            THEN IF _browser = None
                 THEN /\ CookieStage(t, [r EXCEPT !.sess = "failed"])
                      /\ UNCHANGED passed
                 ELSE /\ passed' = passed \cup {r.loc}
                      /\ Returned(t, [r EXCEPT !.sess = "ok"], _browser)
            ELSE /\ BFinish(t, [r EXCEPT !.sess = "notlogged"], "AuthenticationError", None)
                 /\ UNCHANGED passed

\* is_logged_in is done: settings and return _browser, or on to the cookie
check_done(t) ==
  /\ bt[t].pc = "check"
  /\ UNCHANGED <<cvars, pvars, _browser, made, bstatus, loggedIn, sessionFile, cookie>>
  /\ LET r == bt[t] IN
       IF bstatus[r.loc] = "closed"
       THEN /\ CookieStage(t, [r EXCEPT !.sess = "failed"])
            /\ UNCHANGED passed
       ELSE IF r.loc \in loggedIn
            THEN IF _browser = None
                 THEN /\ CookieStage(t, [r EXCEPT !.sess = "failed"])
                      /\ UNCHANGED passed
                 ELSE /\ passed' = passed \cup {r.loc}
                      /\ Returned(t, [r EXCEPT !.sess = "ok"], _browser)
            ELSE /\ CookieStage(t, [r EXCEPT !.sess = "notlogged"])
                 /\ UNCHANGED passed

\* route + login_with_cookie are done (login raises on a cookie the site
\* rejects): settings and return _browser, else AuthenticationError
login_done(t) ==
  /\ bt[t].pc = "login"
  /\ UNCHANGED <<cvars, pvars, _browser, made, bstatus, sessionFile, cookie>>
  /\ LET r == bt[t] IN
       IF bstatus[r.loc] = "closed" \/ cookie = "invalid"
       THEN /\ BFinish(t, [r EXCEPT !.cook = "failed"], "AuthenticationError", None)
            /\ UNCHANGED <<loggedIn, passed>>
       ELSE /\ loggedIn' = loggedIn \cup {r.loc}
            /\ passed' = passed \cup {r.loc}
            /\ IF _browser = None
               THEN BFinish(t, [r EXCEPT !.cook = "failed"], "AuthenticationError", None)
               ELSE Returned(t, [r EXCEPT !.cook = "ok"], _browser)

\* variant: a lapsed login drops the singleton so that the next call re-authenticates
validate_done_resets(t) ==
  /\ bt[t].pc = "vcheck"
  /\ UNCHANGED <<cvars, pvars, made, bstatus, loggedIn, passed, sessionFile, cookie>>
  /\ LET r == bt[t] IN
       /\ _browser' = IF bstatus[r.loc] # "closed" /\ r.loc \notin loggedIn
                      THEN None ELSE _browser
       /\ BFinish(t, r, CASE bstatus[r.loc] = "closed" -> "BrowserError"
                          [] r.loc \in loggedIn -> "None"
                          [] OTHER -> "AuthenticationError", None)

\* validate_session: is_logged_in(browser.page) is done; ensure_authenticated
\* raises AuthenticationError on False
validate_done(t) ==
  /\ bt[t].pc = "vcheck"
  /\ UNCHANGED <<cvars, pvars, _browser, made, bstatus, loggedIn, passed, sessionFile, cookie>>
  /\ LET r == bt[t] IN
       BFinish(t, r, CASE bstatus[r.loc] = "closed" -> "BrowserError"
                       [] r.loc \in loggedIn -> "None"
                       [] OTHER -> "AuthenticationError", None)

\* check_rate_limit: detect_rate_limit(browser.page) is done; it raises
\* RateLimitError when the page shows a rate-limit indicator
rate_done(t) ==
  /\ bt[t].pc = "rcheck"
  /\ UNCHANGED <<cvars, pvars, _browser, made, bstatus, loggedIn, passed, sessionFile, cookie>>
  /\ LET r == bt[t] IN
       IF bstatus[r.loc] = "closed"
       THEN BFinish(t, r, "BrowserError", None)
       ELSE \E detected \in BOOLEAN :
              BFinish(t, r, IF detected THEN "RateLimitError" ELSE "None", None)

\* close_browser up to the await of _browser.close()
close_browser(t) ==
  /\ bt[t].pc = "idle"
  /\ UNCHANGED <<cvars, pvars, _browser, made, bstatus, loggedIn, passed, sessionFile, cookie>>
  /\ IF _browser = None
     THEN BFinish(t, [BtIdle EXCEPT !.op = "close"], "None", None)
     ELSE BAwait(t, [BtIdle EXCEPT !.op = "close", !.found = TRUE], "closing", _browser)

\* variant: the closed instance stays in the module global
close_done_keeps_global(t) ==
  /\ bt[t].pc = "closing"
  /\ UNCHANGED <<cvars, pvars, made, passed, sessionFile, cookie>>
  /\ LET r == bt[t] IN
       \/ /\ bstatus' = [bstatus EXCEPT ![r.loc] = "closed"]
          /\ loggedIn' = loggedIn \ {r.loc}
          /\ _browser' = _browser
          /\ BFinish(t, r, "None", None)
       \/ /\ bstatus[r.loc] = "closed"
          /\ BFinish(t, r, "BrowserError", None)
          /\ UNCHANGED <<_browser, bstatus, loggedIn>>

\* close() is done, then _browser = None.  A second close() of an instance
\* another task has closed meanwhile may also raise.
close_done(t) ==
  /\ bt[t].pc = "closing"
  /\ UNCHANGED <<cvars, pvars, made, passed, sessionFile, cookie>>
  /\ LET r == bt[t] IN
       \/ /\ bstatus' = [bstatus EXCEPT ![r.loc] = "closed"]
          /\ loggedIn' = loggedIn \ {r.loc}
          /\ _browser' = None
          /\ BFinish(t, r, "None", None)
       \/ /\ bstatus[r.loc] = "closed"
          /\ BFinish(t, r, "BrowserError", None)
          /\ UNCHANGED <<_browser, bstatus, loggedIn>>

\* the site ends the login of a page (environment)
login_lapses ==
  /\ \E i \in loggedIn : loggedIn' = loggedIn \ {i}
  /\ UNCHANGED <<cvars, pvars, _browser, made, bstatus, passed, sessionFile, cookie, bt, blast>>

NextBrowser ==
  \/ login_lapses /\ UNCHANGED tx
  \/ \E t \in Tasks :
       \/ get_or_create_browser(t) /\ UNCHANGED tx
       \/ ensure_authenticated(t) /\ UNCHANGED tx
       \/ check_rate_limit(t) /\ UNCHANGED tx
       \/ start_done(t) /\ UNCHANGED tx
       \/ load_done(t) /\ UNCHANGED tx
       \/ goto_done(t) /\ UNCHANGED tx
       \/ check_done(t) /\ UNCHANGED tx
       \/ login_done(t) /\ UNCHANGED tx
       \/ validate_done(t) /\ UNCHANGED tx
       \/ rate_done(t) /\ UNCHANGED tx
       \/ close_browser(t) /\ UNCHANGED tx
       \/ close_done(t) /\ UNCHANGED tx

SpecBrowser == InitBrowser /\ [][NextBrowser]_vars

\* Calls made one after the other: a call starts only when no other call is
\* pending, and the site ends a login only between calls.
Quiet(t) == \A u \in Tasks \ {t} : bt[u].pc = "idle"

NextBrowserSeq ==
  \/ /\ \A u \in Tasks : bt[u].pc = "idle"
     /\ login_lapses
     /\ UNCHANGED tx
  \/ \E t \in Tasks :
       \/ Quiet(t) /\ get_or_create_browser(t) /\ UNCHANGED tx
       \/ Quiet(t) /\ ensure_authenticated(t) /\ UNCHANGED tx
       \/ Quiet(t) /\ check_rate_limit(t) /\ UNCHANGED tx
       \/ Quiet(t) /\ start_done(t) /\ UNCHANGED tx
       \/ Quiet(t) /\ load_done(t) /\ UNCHANGED tx
       \/ Quiet(t) /\ goto_done(t) /\ UNCHANGED tx
       \/ Quiet(t) /\ check_done(t) /\ UNCHANGED tx
       \/ Quiet(t) /\ login_done(t) /\ UNCHANGED tx
       \/ Quiet(t) /\ validate_done(t) /\ UNCHANGED tx
       \/ Quiet(t) /\ rate_done(t) /\ UNCHANGED tx
       \/ Quiet(t) /\ close_browser(t) /\ UNCHANGED tx
       \/ Quiet(t) /\ close_done(t) /\ UNCHANGED tx

SpecBrowserSeq == InitBrowser /\ [][NextBrowserSeq]_vars

\* --------------------------------------------------- browser claims
\* a call that went through construction and authentication itself
Created(o) == blast.op = o /\ ~blast.found

\* C14: a browser that get_or_create_browser returns has passed
\* authentication (session validated as logged in, or cookie login done);
\* in particular the instance a failed attempt created is never handed out.
C14_ReturnedBrowserIsAuthenticated ==
  (blast.op = "get" /\ blast.outcome = "Returned") => blast.ret \in passed

\* C15: with no browser, no session file and a cookie that logs in,
\* ensure_authenticated succeeds through the cookie path; with neither a
\* session file nor a cookie it raises AuthenticationError and neither goto
\* nor cookie login was attempted.
C15_AuthenticationFallback ==
  (Created("ensure") /\ sessionFile = "absent") =>
    /\ cookie = "valid" =>
         /\ blast.outcome = "None"
         /\ blast.sess = "absent"
         /\ blast.cook = "ok"
    /\ cookie = "none" =>
         /\ blast.outcome = "AuthenticationError"
         /\ ~blast.nav

C15_Witness ==
  /\ Created("ensure")
  /\ sessionFile = "absent"
  /\ cookie = "valid"
  /\ blast.outcome = "None"
  /\ blast.cook = "ok"

\* C16: in get_or_create_browser a session that loads and validates as
\* logged in means the cookie is never read; the cookie path is entered
\* exactly when the session file is absent, fails to load or is not logged
\* in; AuthenticationError is raised exactly when neither path authenticates.
C16_CredentialPriority ==
  Created("get") =>
    /\ blast.sess = "ok" => (blast.cook = "notread" /\ sessionFile \notin {"absent", "corrupt"})
    /\ blast.cook # "notread" <=> blast.sess \in {"absent", "failed", "notlogged"}
    /\ blast.sess = "absent" <=> (sessionFile = "absent" /\ blast.outcome # "BrowserError")
    /\ blast.outcome = "AuthenticationError" <=>
         (blast.sess \in {"absent", "failed", "notlogged"} /\ blast.cook \in {"none", "failed"})
    /\ blast.outcome = "Returned" <=> (blast.sess = "ok" \/ blast.cook = "ok")

C16_Witness ==
  /\ Created("get")
  /\ sessionFile = "expired"
  /\ blast.sess = "notlogged"
  /\ blast.cook = "ok"
  /\ blast.outcome = "Returned"

\* C17: ensure_authenticated on an existing browser whose login has lapsed
\* raises AuthenticationError, loads no session file, reads no cookie,
\* navigates nowhere and leaves _browser as it was.
C17_NoSilentReauthentication ==
  [][\A t \in Tasks :
       ( /\ validate_done(t)
         /\ bt[t].found
         /\ bt[t].loc \in passed
         /\ bt[t].loc \notin loggedIn
         /\ bstatus[bt[t].loc] # "closed" )
       => /\ blast'.op = "ensure"
          /\ blast'.outcome = "AuthenticationError"
          /\ blast'.sess = "skipped"
          /\ blast'.cook = "notread"
          /\ ~blast'.nav
          /\ _browser' = _browser]_vars

C17_Witness ==
  /\ blast.op = "ensure"
  /\ blast.found
  /\ blast.outcome = "AuthenticationError"
  /\ blast.loc \in passed
  /\ blast.loc \notin loggedIn
  /\ _browser = blast.loc

\* the BrowserManager instances constructed and not closed
Open == {i \in 1..MaxBrowser : bstatus[i] \in {"new", "started"}}

\* C18: at most one BrowserManager that was created and not closed exists,
\* and a call that found a browser returns the one that exists.
C18_SingleInstance ==
  /\ Cardinality(Open) <= 1
  /\ (blast.outcome = "Returned" /\ blast.found /\ _browser # None) => blast.ret = _browser

\* C19: a caller that arrives while another caller is still awaiting the
\* start or the login of the browser does not receive that instance from
\* get_or_create_browser.
C19_NoHalfInitializedBrowser ==
  [][\A t \in Tasks :
       ( /\ get_or_create_browser(t) \/ ensure_authenticated(t) \/ check_rate_limit(t)
         /\ _browser # None )
       => \A u \in Tasks \ {t} : ~(bt[u].pc \in InitPcs /\ bt[u].loc = _browser)]_vars

\* what the module and its BrowserManager instances hold between calls
BrowserState == <<_browser, bstatus, loggedIn, passed>>

\* C20: a check_rate_limit that detects the indicator raises RateLimitError
\* and moves the session state machine to another state (Degraded); one
\* that detects nothing raises nothing and leaves the state as it was.
C20_RateLimitDegrades ==
  [][\A t \in Tasks :
       rate_done(t) =>
         /\ blast'.outcome = "RateLimitError" => BrowserState' # BrowserState
         /\ blast'.outcome = "None" => BrowserState' = BrowserState]_vars

\* task t gets an instance in this step: get_or_create_browser returns it to
\* the tool, to validate_session or to check_rate_limit
Handed(t) ==
  \/ bt[t].pc # "idle" /\ bt'[t].pc = "idle" /\ blast'.outcome = "Returned"
  \/ bt[t].pc \notin {"vcheck", "rcheck"} /\ bt'[t].pc \in {"vcheck", "rcheck"}

\* the instance task t gets in this step
HandedInstance(t) == IF bt'[t].pc = "idle" THEN blast'.ret ELSE bt'[t].loc

\* C29: a closed browser is never reused.  A close_browser() that completes
\* leaves the singleton empty; a get_or_create_browser() that finds it
\* empty constructs a new instance and starts credential resolution over; no
\* call is handed a closed instance; close_browser() without a browser
\* changes nothing.
C29_ClosedBrowserNeverReused ==
  /\ [](_browser # None => bstatus[_browser] # "closed")
  /\ [][\A t \in Tasks :
          /\ (bt[t].pc = "closing" /\ bt'[t].pc = "idle" /\ blast'.outcome = "None")
               => /\ _browser' = None
                  /\ bstatus'[bt[t].loc] = "closed"
          /\ (bt[t].pc = "idle" /\ bt'[t].pc # "idle" /\ bt'[t].op # "close"
               /\ _browser = None)
               => /\ _browser' \notin {None} \cup {i \in 1..MaxBrowser : bstatus[i] # "none"}
                  /\ bstatus'[_browser'] = "new"
                  /\ bt'[t] = [BtIdle EXCEPT !.pc = "start", !.op = bt'[t].op,
                                             !.loc = _browser']
          /\ Handed(t) => bstatus'[HandedInstance(t)] # "closed"]_vars
  /\ [][(bt' = bt /\ blast' # blast) =>
          /\ blast'.outcome = "Returned" => bstatus'[blast'.ret] # "closed"
          /\ blast'.op = "close" =>
               /\ _browser = None
               /\ BrowserState' = BrowserState
               /\ blast'.outcome = "None"]_vars

\* after a close, a get_or_create_browser has constructed and authenticated
\* a second instance and returned it
C29_Witness ==
  /\ blast.op = "get"
  /\ blast.outcome = "Returned"
  /\ ~blast.found
  /\ blast.ret # None
  /\ blast.sess \in {"ok", "absent", "notlogged", "failed"}
  /\ \E i \in 1..MaxBrowser : bstatus[i] = "closed" /\ i # blast.ret
  /\ bstatus[blast.ret] = "started"

\* ==================== tools/job.py: get_job_details and search_jobs (server)
\* A tool is one coroutine: await ensure_authenticated(), await
\* get_or_create_browser(), construct the scraper on browser.page, await
\* its scrape()/search(), all inside try/except Exception.  tx[t] follows the
\* tool that task t runs; the browser coroutines it awaits are the actions
\* above, run by the same task.
ToolNames == {"get_job_details", "search_jobs"}

\* error_handler.handle_tool_error(e, name): the response that describes the
\* exception e of the tool name
handle_tool_error(e, name) == <<"error", e, name>>

\* the tool of task t returns v
ToolReturns(t, v) ==
  tx' = [tx EXCEPT ![t].pc = "idle", ![t].result = <<"returned", v>>]

\* job.py 122-123, 171-172: the statement at stage raised e; the except
\* clause returns handle_tool_error(e, name)
ToolCatches(t, stage, e) ==
  tx' = [tx EXCEPT ![t].pc = "idle", ![t].raisedIn = stage, ![t].exc = e,
                   ![t].result = <<"returned", handle_tool_error(e, tx[t].name)>>]

\* job.py 109-111, 160-166: get_or_create_browser returned b; the scraper is
\* constructed on b.page and its scrape()/search() is awaited
ToolScrapes(t, b) ==
  tx' = [tx EXCEPT ![t].pc = "scrape", ![t].scraper = b]

\* variant: the tool does not validate the session first
tool_called_unchecked(t) ==
  /\ tx[t].pc = "idle"
  /\ get_or_create_browser(t)
  /\ \E name \in ToolNames :
       tx' = IF _browser # None
             THEN [tx EXCEPT ![t] = [TxIdle EXCEPT !.pc = "scrape", !.name = name,
                                                  !.scraper = _browser]]
             ELSE [tx EXCEPT ![t] = [TxIdle EXCEPT !.pc = "get", !.name = name]]

\* job.py 100-102, 152-154: the tool is called and awaits
\* ensure_authenticated(), which runs up to its first await
tool_called(t) ==
  /\ tx[t].pc = "idle"
  /\ ensure_authenticated(t)
  /\ \E name \in ToolNames :
       tx' = [tx EXCEPT ![t] = [TxIdle EXCEPT !.pc = "ensure", !.name = name]]

\* the browser coroutine the tool awaits has taken a step: it is still
\* pending, or it raised into the except clause, or (get_or_create_browser)
\* it returned the browser
ToolResumes(t) ==
  /\ tx[t].pc \in {"ensure", "get"}
  /\ IF bt'[t].pc # "idle" THEN UNCHANGED tx
     ELSE IF blast'.outcome = "Returned" THEN ToolScrapes(t, blast'.ret)
     ELSE ToolCatches(t, tx[t].pc, blast'.outcome)

\* is_logged_in of validate_session is done.  False or an exception:
\* ensure_authenticated raises into the except clause.  True: the tool goes
\* on to get_or_create_browser(), which returns _browser at once or
\* constructs a browser and awaits its start.
tool_ensured(t) ==
  /\ bt[t].pc = "vcheck"
  /\ tx[t].pc = "ensure"
  /\ IF bstatus[bt[t].loc] # "closed" /\ bt[t].loc \in loggedIn
     THEN /\ GocEnter(t, "get")
          /\ IF _browser # None
             THEN tx' = [tx EXCEPT ![t].ensured = TRUE, ![t].pc = "scrape",
                                   ![t].scraper = _browser]
             ELSE tx' = [tx EXCEPT ![t].ensured = TRUE, ![t].pc = "get"]
     ELSE /\ validate_done(t)
          /\ ToolCatches(t, "ensure", blast'.outcome)

\* job.py 112-120, 163-169: scrape()/search() is done: the tool returns the
\* data, or the scraper raised (any use of a closed page raises)
scrape_done(t) ==
  /\ tx[t].pc = "scrape"
  /\ UNCHANGED <<cvars, pvars, _browser, made, bstatus, loggedIn, passed,
                 sessionFile, cookie, bt, blast>>
  /\ \E ok \in BOOLEAN :
       IF ok /\ bstatus[tx[t].scraper] # "closed"
       THEN ToolReturns(t, <<"data", tx[t].name>>)
       ELSE ToolCatches(t, "scrape", "Exception")

\* close_browser is what the close_session tool and the shutdown run
NextTool ==
  \/ login_lapses /\ UNCHANGED tx
  \/ \E t \in Tasks :
       \/ tool_called(t)
       \/ start_done(t) /\ ToolResumes(t)
       \/ load_done(t) /\ ToolResumes(t)
       \/ goto_done(t) /\ ToolResumes(t)
       \/ check_done(t) /\ ToolResumes(t)
       \/ login_done(t) /\ ToolResumes(t)
       \/ tool_ensured(t)
       \/ scrape_done(t)
       \/ tx[t].pc = "idle" /\ close_browser(t) /\ UNCHANGED tx
       \/ close_done(t) /\ UNCHANGED tx

SpecTool == InitBrowser /\ [][NextTool]_vars

\* C31: in get_job_details and search_jobs ensure_authenticated() has
\* returned normally before a scraper is constructed or run; when it raises
\* no scraper is constructed and the tool returns the value of
\* handle_tool_error; no exception leaves the tool.
C31_EnsureBeforeScrape ==
  \A t \in Tasks :
    /\ tx[t].pc \in {"get", "scrape"} => tx[t].ensured
    /\ tx[t].scraper # None => tx[t].ensured
    /\ tx[t].raisedIn = "ensure" =>
         /\ ~tx[t].ensured
         /\ tx[t].scraper = None
         /\ tx[t].pc = "idle"
    /\ tx[t].raisedIn # "none" =>
         tx[t].result = <<"returned", handle_tool_error(tx[t].exc, tx[t].name)>>
    /\ tx[t].result[1] # "raised"

\* a tool found the browser with its login lapsed: ensure_authenticated
\* raised and the tool returned the error response
C31_Witness ==
  \E t \in Tasks :
    /\ tx[t].name = "get_job_details"
    /\ tx[t].raisedIn = "ensure"
    /\ tx[t].exc = "AuthenticationError"
    /\ tx[t].result = <<"returned", handle_tool_error("AuthenticationError", "get_job_details")>>
    /\ _browser # None
    /\ _browser \in passed

\* ================================= values, json.dumps and json.loads
\* A Python value is the sequence of its tokens, written as its literal is:
\* {"a": [0, "x"]} is <<DictOpen, Key("a"), ListOpen, PyInt(0), PyStr("x"),
\* ListClose, DictClose>>.  A str is <<"str", piece, ...>>, its text being
\* the pieces one after the other.  The values are those JSON can carry:
\* mappings with str keys, lists, str, int, bool, None.
DictOpen == <<"dict", "{">>
DictClose == <<"dict", "}">>
ListOpen == <<"list", "[">>
ListClose == <<"list", "]">>
Key(k) == <<"key", k>>
PyStr(x) == <<"str", x>>
PyInt(n) == <<"int", n>>
PyNone == <<"none", "None">>
PyTrue == <<"bool", "True">>

IsOpen(tok) == tok[1] \in {"dict", "list"} /\ tok[2] \in {"{", "["}
IsClose(tok) == tok[1] \in {"dict", "list"} /\ tok[2] \in {"}", "]"}

RECURSIVE Items(_)
\* the tokens of the members key: value, ... of a dict display
Items(pairs) ==
  IF Len(pairs) = 0 THEN <<>>
  ELSE <<Key(pairs[1][1])>> \o pairs[1][2] \o Items(Tail(pairs))

PyDict(pairs) == <<DictOpen>> \o Items(pairs) \o <<DictClose>>

RECURSIVE Concat(_)
Concat(elems) == IF Len(elems) = 0 THEN <<>> ELSE elems[1] \o Concat(Tail(elems))

PyList(elems) == <<ListOpen>> \o Concat(elems) \o <<ListClose>>

RECURSIVE Closer(_, _, _)
\* position of the bracket that closes the container entered before
\* position m, open containers being entered and not yet left
Closer(d, m, open) ==
  IF IsOpen(d[m]) THEN Closer(d, m + 1, open + 1)
  ELSE IF IsClose(d[m])
       THEN IF open = 1 THEN m ELSE Closer(d, m + 1, open - 1)
       ELSE Closer(d, m + 1, open)

\* position of the last token of the value that starts at position j
ValueEnd(d, j) == IF IsOpen(d[j]) THEN Closer(d, j + 1, 1) ELSE j

IsDict(v) == Len(v) >= 2 /\ v[1][1] = "dict"

RECURSIVE Find(_, _, _)
\* position of the key k among the members of the dict d from position i
\* on, None when it is not there
Find(d, k, i) ==
  IF i > Len(d) \/ d[i][1] # "key" THEN None
  ELSE IF d[i][2] = k THEN i
       ELSE Find(d, k, ValueEnd(d, i + 1) + 1)

\* k in d
Has(d, k) == IsDict(d) /\ Find(d, k, 2) # None

\* d.get(k, default)
Get(d, k, default) ==
  IF Has(d, k)
  THEN SubSeq(d, Find(d, k, 2) + 1, ValueEnd(d, Find(d, k, 2) + 1))
  ELSE default

\* bool(v)
Truthy(v) ==
  CASE v[1][1] = "none" -> FALSE
    [] v[1][1] = "int" -> v[1][2] # 0
    [] v[1][1] = "str" -> v[1][2] # ""
    [] v[1][1] = "bool" -> v[1][2] = "True"
    [] OTHER -> Len(v) > 2

\* f"{prefix}{msg}" for a str msg
Format(prefix, msg) == << <<"str", prefix>> \o Tail(msg[1]) >>

\* JSON text is the sequence of its lexical tokens
Punct(c) == <<"punct", c>>

\* the JSON text of one Python token
JsonOf(tok) ==
  CASE tok[1] = "dict" -> <<Punct(tok[2])>>
    [] tok[1] = "list" -> <<Punct(tok[2])>>
    [] tok[1] = "key" -> <<<<"string", tok[2]>>, Punct(":")>>
    [] tok[1] = "str" -> <<<<"string", tok[2]>>>>
    [] tok[1] = "int" -> <<<<"number", tok[2]>>>>
    [] tok[1] = "none" -> <<<<"literal", "null">>>>
    [] OTHER -> <<<<"literal", "true">>>>

RECURSIVE DumpsFrom(_, _)
\* json.dumps from token i on: a comma goes in front of every member or
\* element but the first of its container
DumpsFrom(v, i) ==
  IF i > Len(v) THEN <<>>
  ELSE (IF i > 1 /\ ~IsClose(v[i]) /\ ~IsOpen(v[i - 1]) /\ v[i - 1][1] # "key"
        THEN <<Punct(",")>> ELSE <<>>)
       \o JsonOf(v[i]) \o DumpsFrom(v, i + 1)

\* json.dumps(v)
Dumps(v) == DumpsFrom(v, 1)

RECURSIVE LoadsFrom(_, _)
\* json.loads from token i on: a string in front of a colon is a key
LoadsFrom(js, i) ==
  IF i > Len(js) THEN <<>>
  ELSE LET tok == js[i] IN
       (CASE tok[1] = "punct" /\ tok[2] \in {",", ":"} -> <<>>
          [] tok[1] = "punct" /\ tok[2] \in {"{", "}"} -> <<<<"dict", tok[2]>>>>
          [] tok[1] = "punct" -> <<<<"list", tok[2]>>>>
          [] tok[1] = "string" ->
               IF i < Len(js) /\ js[i + 1][1] = "punct" /\ js[i + 1][2] = ":"
               THEN <<Key(tok[2])>> ELSE <<PyStr(tok[2])>>
          [] tok[1] = "number" -> <<PyInt(tok[2])>>
          [] tok[2] = "null" -> <<PyNone>>
          [] OTHER -> <<PyTrue>>)
       \o LoadsFrom(js, i + 1)

\* json.loads(text)
Loads(js) == LoadsFrom(js, 1)

\* ========================== one call, from the facade to what it returns
\* client.py 215-331 over _send_request_stdio, with the texts that cross
\* the pipe.  The caller is alone on a client whose handshake is done; a
\* behaviour follows the first call made on it.
InitCall ==
  /\ transport = "stdio"
  /\ process = 1
  /\ alive = TRUE
  /\ request_id = 0
  /\ started = 1
  /\ terminated = [p \in 1..MaxProc |-> 0]
  /\ killed = {}
  /\ wire = <<WireRec(1, "initialize", INITIALIZE_ID),
              WireRec(1, "notifications/initialized", None)>>
  /\ session = "Ready"
  /\ pc = [t \in Tasks |-> "idle"]
  /\ reqId = [t \in Tasks |-> None]
  /\ skipped = [t \in Tasks |-> 0]
  /\ last = [op |-> "connect", proc |-> 1, reqId |-> INITIALIZE_ID, outcome |-> "None",
             line |-> Line("object", INITIALIZE_ID, "absent", "payload"), skipped |-> 0]
  /\ BrowserIdle
  /\ cx = CxIdle
  /\ sx = SxIdle
  /\ fx = FxIdle

\* values a caller passes
Atoms == {<<PyInt(0)>>, <<PyStr("x")>>, <<PyNone>>}
ListsOf(S) == {PyList(<<>>)} \cup {PyList(<<a>>) : a \in S}
              \cup {PyList(<<a, b>>) : a, b \in S}
DictsOf(S) == {PyDict(<<>>)} \cup {PyDict(<<<<"a", v>>>>) : v \in S}
              \cup {PyDict(<<<<"a", v>>, <<"b", w>>>>) : v, w \in S}
Nested == Atoms \cup ListsOf(Atoms) \cup DictsOf(Atoms)
ArgumentValues == DictsOf(Nested)
OptionalStr == {<<PyNone>>, <<PyStr("")>>, <<PyStr("x")>>}
OptionalInt == {<<PyNone>>, <<PyInt(0)>>, <<PyInt(5)>>}

\* client.py 80-85: the request object; params or {}
Request(id, method, params) ==
  PyDict(<< <<"jsonrpc", <<PyStr("2.0")>>>>, <<"id", <<PyInt(id)>>>>,
            <<"method", <<PyStr(method)>>>>,
            <<"params", IF Truthy(params) THEN params ELSE PyDict(<<>>)>> >>)

\* client.py 77-89: the None check, the id, the write of the request line
Send(o, given, arguments, method, params) ==
  /\ process # None
  /\ alive
  /\ request_id < MaxId
  /\ request_id' = _get_next_id
  /\ wire' = Append(wire, WireRec(process, method, _get_next_id))
  /\ cx' = [CxIdle EXCEPT !.pc = "sent", !.op = o, !.given = given,
                          !.arguments = arguments, !.params = params,
                          !.sent = Dumps(Request(_get_next_id, method, params))]
  /\ UNCHANGED <<transport, process, alive, started, terminated, killed, session,
                 pc, reqId, skipped, last, bvars, sx, fx>>

\* client.py 231-237: the params of tools/call
ToolCall(name, arguments) ==
  PyDict(<< <<"name", <<PyStr(name)>>>>, <<"arguments", arguments>> >>)

call_tool ==
  /\ cx.pc = "idle"
  /\ \E arguments \in ArgumentValues :
       Send("call_tool", <<>>, arguments, "tools/call", ToolCall("echo", arguments))

list_tools ==
  /\ cx.pc = "idle"
  /\ Send("list_tools", <<>>, <<>>, "tools/list", PyDict(<<>>))

\* client.py 277-280
CompanyPostsArgs(url, limit) ==
  PyDict(<< <<"url", url>> >>
         \o (IF limit # <<PyNone>> THEN << <<"limit", limit>> >> ELSE <<>>))

get_company_posts ==
  /\ cx.pc = "idle"
  /\ \E limit \in OptionalInt :
       LET url == <<PyStr("x")>>
           args == CompanyPostsArgs(url, limit)
       IN Send("get_company_posts", PyDict(<< <<"limit", limit>> >>), args,
               "tools/call", ToolCall("get_company_posts", args))

\* client.py 301-309: each optional argument goes in when it is truthy
SearchJobsArgs(keywords, location, limit, time_posted) ==
  PyDict((IF Truthy(keywords) THEN << <<"keywords", keywords>> >> ELSE <<>>)
         \o (IF Truthy(location) THEN << <<"location", location>> >> ELSE <<>>)
         \o (IF Truthy(limit) THEN << <<"limit", limit>> >> ELSE <<>>)
         \o (IF Truthy(time_posted) THEN << <<"time_posted", time_posted>> >> ELSE <<>>))

search_jobs ==
  /\ cx.pc = "idle"
  /\ \E keywords \in OptionalStr, location \in OptionalStr,
        limit \in OptionalInt, time_posted \in OptionalStr :
       LET args == SearchJobsArgs(keywords, location, limit, time_posted)
       IN Send("search_jobs",
               PyDict(<< <<"keywords", keywords>>, <<"location", location>>,
                         <<"limit", limit>>, <<"time_posted", time_posted>> >>),
               args, "tools/call", ToolCall("search_jobs", args))

\* what a server puts under result for tools/list
Tool(name) == PyDict(<< <<"name", <<PyStr(name)>>>> >>)
ToolsResults ==
  {PyDict(<<>>)}
  \cup {PyDict(<< <<"tools", PyList(l)>> >>) :
          l \in {<<>>, <<Tool("get_job_details")>>,
                 <<Tool("get_job_details"), Tool("search_jobs")>>,
                 <<Tool("search_jobs"), Tool("get_job_details")>>}}

\* error descriptors a server sends
ErrorObjects ==
  {PyDict(<< <<"code", <<PyInt(c)>>>>, <<"message", <<PyStr("Job not found")>>>> >>) :
     c \in {AUTH_ERROR_CODE, -32601}}
  \cup {PyDict(<< <<"message", <<PyStr("Job not found")>>>> >>)}

\* the response line for the request text: jsonrpc, the id of the request,
\* and the member with its value
ResponseTo(sent, member, value) ==
  Dumps(PyDict(<< <<"jsonrpc", <<PyStr("2.0")>>>>,
                  <<"id", Get(Loads(sent), "id", <<PyNone>>)>>,
                  <<member, value>> >>))

\* the server answers the request (environment): it echoes the params as
\* the result, lists its tools, or sends an error descriptor
stub_answers ==
  /\ cx.pc = "sent"
  /\ \/ LET echo == Get(Loads(cx.sent), "params", PyDict(<<>>)) IN
          cx' = [cx EXCEPT !.pc = "answered", !.stub = "echo", !.served = echo,
                           !.reply = ResponseTo(cx.sent, "result", echo)]
     \/ \E r \in ToolsResults :
          cx' = [cx EXCEPT !.pc = "answered", !.stub = "tools", !.served = r,
                           !.reply = ResponseTo(cx.sent, "result", r)]
     \/ \E e \in ErrorObjects :
          cx' = [cx EXCEPT !.pc = "answered", !.stub = "error", !.served = e,
                           !.reply = ResponseTo(cx.sent, "error", e)]
  /\ UNCHANGED <<cvars, bvars, sx, fx>>

\* variant: hands out only the arguments member of the result
ResultOf_arguments_only(response) ==
  Get(Get(response, "result", PyDict(<<>>)), "arguments", PyDict(<<>>))

\* client.py 103: response.get("result", {})
ResultOf(response) == Get(response, "result", PyDict(<<>>))

\* variant: the whole result instead of its tools member
ToolsOf_whole_result(result) == result

\* client.py 218: result.get("tools", [])
ToolsOf(result) == Get(result, "tools", PyList(<<>>))

\* client.py 94-103 and 215-238 on the parsed response: the exception
\* raised with its arguments, or the value the method returns
Respond(o, response) ==
  IF Has(response, "error")
  THEN LET error == Get(response, "error", <<PyNone>>)
           error_msg == Get(error, "message", <<PyStr("Unknown error")>>)
           error_code == Get(error, "code", <<PyInt(DEFAULT_ERROR_CODE)>>)
       IN IF error_code[1][2] = AUTH_ERROR_CODE
          THEN [outcome |-> "LinkedInMCPAuthenticationError", value |-> <<>>,
                args |-> <<error_msg>>]
          ELSE [outcome |-> "LinkedInMCPToolError", value |-> <<>>,
                args |-> <<Format("Server error: ", error_msg)>>]
  ELSE [outcome |-> "Result",
        value |-> IF o = "list_tools" THEN ToolsOf(ResultOf(response))
                  ELSE ResultOf(response),
        args |-> <<>>]

\* the client reads the line, parses it and the method returns or raises
response_read ==
  /\ cx.pc = "answered"
  /\ LET r == Respond(cx.op, Loads(cx.reply)) IN
       cx' = [cx EXCEPT !.pc = "done", !.outcome = r.outcome, !.value = r.value,
                        !.args = r.args]
  /\ UNCHANGED <<cvars, bvars, sx, fx>>

NextCall ==
  \/ call_tool
  \/ list_tools
  \/ get_company_posts
  \/ search_jobs
  \/ stub_answers
  \/ response_read

SpecCall == InitCall /\ [][NextCall]_vars

\* -------------------------------------------------- claims on one call
\* C21: a call whose params the server echoes back as the result returns a
\* value identical to the params sent, for every nesting of mappings and
\* sequences.
C21_ResultRoundTrip ==
  (cx.pc = "done" /\ cx.op # "list_tools" /\ cx.stub = "echo")
    => cx.outcome = "Result" /\ cx.value = cx.params

\* a call passed a mapping holding a list and a mapping and got it back
C21_Witness ==
  /\ cx.pc = "done"
  /\ cx.op = "call_tool"
  /\ cx.stub = "echo"
  /\ cx.arguments = PyDict(<< <<"a", PyList(<< <<PyInt(0)>>, <<PyStr("x")>> >>)>>,
                              <<"b", PyDict(<< <<"a", <<PyNone>>>> >>)>> >>)
  /\ cx.value = ToolCall("echo", cx.arguments)

\* C22: list_tools writes one tools/list request and returns the sequence
\* under the key tools of the result as it is, the empty sequence when the
\* key is absent.
C22_ListToolsReturnsTools ==
  cx.op = "list_tools" =>
    /\ Len(wire) = 3
    /\ wire[3].method = "tools/list"
    /\ Get(Loads(cx.sent), "method", <<PyNone>>) = <<PyStr("tools/list")>>
    /\ (cx.pc = "done" /\ cx.stub = "tools") =>
         /\ cx.outcome = "Result"
         /\ cx.value = IF Has(cx.served, "tools")
                       THEN Get(cx.served, "tools", <<PyNone>>)
                       ELSE PyList(<<>>)

\* the server listed the one tool get_job_details and list_tools returned
\* a sequence of that one entry
C22_Witness ==
  /\ cx.pc = "done"
  /\ cx.op = "list_tools"
  /\ cx.served = PyDict(<< <<"tools", PyList(<<Tool("get_job_details")>>)>> >>)
  /\ cx.value = <<ListOpen, DictOpen, Key("name"), PyStr("get_job_details"),
                  DictClose, ListClose>>

\* the exception arguments hold the value v
Carries(args, v) ==
  \E i \in DOMAIN args :
    /\ Len(args[i]) = Len(v)
    /\ Len(args[i][1]) = Len(v[1])
    /\ args[i][1][1] = v[1][1]
    /\ args[i] = v

\* C25: the LinkedInMCPToolError raised for an error descriptor with a code
\* other than -32000 carries the remote code and the remote message as
\* they were sent.
C25_ToolErrorCarriesCodeAndMessage ==
  (cx.pc = "done" /\ cx.outcome = "LinkedInMCPToolError") =>
    /\ Carries(cx.args, Get(cx.served, "message", <<PyNone>>))
    /\ Has(cx.served, "code") => Carries(cx.args, Get(cx.served, "code", <<PyNone>>))

\* the optional parameters of the facade method o
OptionalOf(o) ==
  CASE o = "get_company_posts" -> {"limit"}
    [] o = "search_jobs" -> {"keywords", "location", "limit", "time_posted"}
    [] OTHER -> {}

\* C26: get_company_posts and search_jobs put an optional argument into the
\* arguments exactly when the caller gave a value other than None, with
\* that value (0 and "" included); an argument not given is left out.
C26_OptionalArgumentsIffSupplied ==
  \A a \in OptionalOf(cx.op) :
    LET given == Get(cx.given, a, <<PyNone>>) IN
      /\ Has(cx.arguments, a) <=> given[1][1] # "none"
      /\ Has(cx.arguments, a) => Get(cx.arguments, a, <<PyNone>>) = given

\* ------------------------------------------- one caller, calls in sequence
\* One task uses the client: every operation is awaited before the next.
Caller == "a"

NextSequential ==
  \/ child_exits
  \/ connect_stdio(Caller)
  \/ connect_http(Caller)
  \/ _initialize_read(Caller)
  \/ _send_request_stdio(Caller)
  \/ _send_request_stdio_read(Caller)
  \/ _send_request_http(Caller)
  \/ _send_request_http_reply(Caller)
  \/ disconnect(Caller)

SpecSequential == Init /\ [][NextSequential]_vars

\* a read of a call ends in this step with a JSON object
ObjectObserved ==
  /\ \E t \in Tasks : _send_request_stdio_read(t) /\ pc'[t] = "idle"
  /\ last'.line.kind = "object"

\* C23: with calls made one after the other on a stdio client, the call
\* that wrote request k ends on the response to request k, and a response
\* is never observed after the response to a request sent later.
C23_ResponsesInSendOrder ==
  /\ []((transport = "stdio" /\ last.op = "call" /\ last.line.kind = "object")
          => last.line.id = last.reqId)
  /\ [][(ObjectObserved /\ last.op = "call" /\ last.line.kind = "object"
         /\ last.proc = last'.proc /\ last.line.id # None /\ last'.line.id # None)
        => last.line.id < last'.line.id]_vars

\* tool requests now on the wire
ToolRequests == {i \in DOMAIN wire : wire[i].method \in ToolMethods}

C28_HttpConnectNeverRaises ==
  /\ [](transport = "http" => process = None /\ started = 0)
  /\ [][\A t \in Tasks :
          connect_http(t) => /\ last'.op = "connect"
                             /\ last'.outcome = "None"
                             /\ session' = "Ready"
                             /\ pc'[t] = "idle"]_vars

\* after connect() on http a call was made and returned its result
C28_Witness ==
  /\ transport = "http"
  /\ session = "Ready"
  /\ last.op = "call"
  /\ last.outcome = "Result"
  /\ process = None

\* the handshake of the child now held ended on an error response or on
\* end-of-file
HandshakeFailed ==
  /\ last.op = "connect"
  /\ last.outcome = "LinkedInMCPConnectionError"
  /\ last.proc = process
  /\ \/ last.line.kind = "eof"
     \/ last.line.kind = "object" /\ last.line.err # "absent"

\* C30: a handshake that ends on an error response or on end-of-file makes
\* connect() raise LinkedInMCPConnectionError without sending the
\* initialized notification and without reaching Ready, and the next
\* list_tools/call_tool writes nothing and raises LinkedInMCPConnectionError.
C30_FailedHandshakeBlocksCalls ==
  /\ [](HandshakeFailed =>
          /\ session # "Ready"
          /\ \A i \in DOMAIN wire : wire[i].method # "notifications/initialized")
  /\ [][(HandshakeFailed /\ _send_request_stdio(Caller))
        => /\ wire' = wire
           /\ last'.outcome = "LinkedInMCPConnectionError"]_vars

\* ------------------------------------ failures and ownership of the child
\* C32: a stdio call that fails at the transport (the write to a child that
\* has exited, the stream closed during the read) raises
\* LinkedInMCPConnectionError and nothing else.
C32_TransportFailuresAreConnectionErrors ==
  (transport = "stdio" /\ last.op = "call" /\ last.line.kind \in {"none", "eof"})
    => last.outcome = "LinkedInMCPConnectionError"

\* children this client started and has not sent terminate()
Owned == {p \in 1..started : terminated[p] = 0}

\* C33: the client owns at most one child at a time, the one it holds; while
\* it holds one no step starts a child or writes an initialize request, and
\* a connect() that finds one returns at once.
C33_AtMostOneProcess ==
  /\ [](Cardinality(Owned) <= 1 /\ Owned \subseteq {process})
  /\ [][(transport = "stdio" /\ process # None) =>
          /\ started' = started
          /\ (wire' # wire /\ Len(wire') > 0)
               => wire'[Len(wire')].method # "initialize"
          /\ (last'.op = "connect" /\ last' # last /\ pc' = pc)
               => last'.outcome = "None" /\ process' = process]_vars

\* a connect() found the child of an earlier connect() and started nothing
C33_Witness ==
  /\ transport = "stdio"
  /\ last.op = "connect"
  /\ last.outcome = "None"
  /\ last.line = NoResp
  /\ last.proc = 1
  /\ process = 1
  /\ started = 1

\* C34: a stdio connect() ends normally or in LinkedInMCPConnectionError:
\* the command that cannot be started, the stream that closes during the
\* handshake and the initialize response with an error all raise it.
C34_ConnectFailuresAreConnectionErrors ==
  (transport = "stdio" /\ last.op = "connect") =>
    /\ last.outcome \in {"None", "LinkedInMCPConnectionError"}
    /\ last.proc = None => last.outcome = "LinkedInMCPConnectionError"
    /\ last.line.kind \in {"eof", "badutf8", "scalar"}
         => last.outcome = "LinkedInMCPConnectionError"
    /\ (last.line.kind = "object" /\ last.line.err # "absent")
         => last.outcome = "LinkedInMCPConnectionError"

\* a connect() got an initialize response with an error and raised
C34_Witness ==
  /\ transport = "stdio"
  /\ last.op = "connect"
  /\ last.line.kind = "object"
  /\ last.line.err = "other"
  /\ last.outcome = "LinkedInMCPConnectionError"

\* C35: the step in which a call ends in LinkedInMCPAuthenticationError or
\* LinkedInMCPToolError changes nothing of the connection: the handle, the
\* child, the signals sent, the request-id counter (not below the id of the
\* call) and what was written stay as they were.
C35_ErrorLeavesConnection ==
  [][(last' # last /\ last'.op = "call"
      /\ last'.outcome \in {"LinkedInMCPAuthenticationError", "LinkedInMCPToolError"})
     => /\ UNCHANGED <<process, alive, started, terminated, killed, request_id,
                       wire, session>>
        /\ last'.reqId <= request_id']_vars

\* after a call that ended in LinkedInMCPToolError the child is held and
\* untouched, and that call was the second on this connection
C35_Witness ==
  /\ transport = "stdio"
  /\ last.op = "call"
  /\ last.outcome = "LinkedInMCPToolError"
  /\ last.reqId = 2
  /\ request_id = 2
  /\ process = 1
  /\ alive
  /\ terminated[1] = 0
  /\ Cardinality(ToolRequests) = 2

\* One caller, and a stream that delivers its next line in the end.
SpecSequentialFair ==
  /\ Init
  /\ [][NextSequential]_vars
  /\ WF_vars(_send_request_stdio_read(Caller))

\* C39: the read of a response ends; it ends by returning a line that
\* parses as JSON or, at end-of-file, by raising LinkedInMCPConnectionError,
\* and never on an empty or non-JSON line.
C39_ReadTerminates ==
  /\ [][(pc[Caller] = "read" /\ pc'[Caller] = "idle") =>
          \/ last'.line.kind \in {"object", "scalar"}
          \/ /\ last'.line.kind = "eof"
             /\ last'.outcome = "LinkedInMCPConnectionError"]_vars
  /\ (pc[Caller] = "read") ~> (pc[Caller] = "idle")

\* the read of every call ends
ReadEnds == (pc[Caller] = "read") ~> (pc[Caller] = "idle")

\* ============================== backend/main.py: POST /search (one request)
\* search_endpoint opens one stdio session and runs search_jobs of
\* linkedin_utils.py for each keyword in turn.  started is the sequence of
\* keywords whose search_jobs tool call was issued, searched the keywords
\* whose tool call has ended, pending[k] the get_details coroutines of
\* keyword k that await their tool call, fetched[k] how many have ended,
\* paused the keywords whose asyncio.sleep(1) has elapsed.  Of the
\* search_jobs that runs, urls is the number of job URLs the search gave,
\* noid those in which no job id is found, calls those get_job_details was
\* called for and details what each call gave.  ret is what the last
\* search_jobs returned, jobs is all_job_urls, found the detail records that
\* were found so far (history).
Keywords == 1..MaxKeywords

\* the URLs a search can give, by position
Urls == 1..(MaxDetails + 1)

\* what a get_job_details call can give: a text that decodes to a mapping,
\* a text that does not, no content, an exception
DetailResults == {"mapping", "other", "nocontent", "raises"}

Min(a, b) == IF a < b THEN a ELSE b

\* variant: the time_posted filter is sent when it is set
SearchArguments_with_time_posted(keyword, limit, location, time_posted) ==
  IF time_posted \notin {"None", ""}
  THEN [keywords |-> keyword, location |-> location, limit |-> limit,
        time_posted |-> time_posted]
  ELSE [keywords |-> keyword, location |-> location, limit |-> limit]

\* linkedin_utils.py 40-49: the arguments of the search_jobs tool call; the
\* lines that add time_posted are commented out
SearchArguments(keyword, limit, location, time_posted) ==
  [keywords |-> keyword, location |-> location, limit |-> limit]

\* main.py 71-82: the request arrives; stdio_client and ClientSession are
\* entered and session.initialize() is awaited
search_endpoint ==
  /\ sx.pc = "idle"
  /\ UNCHANGED <<cvars, bvars, cx, fx>>
  /\ \E n \in 0..MaxKeywords, limit \in 0..MaxDetails, time_posted \in {"None", "r86400"} :
       sx' = [sx EXCEPT !.pc = "init", !.n = n, !.limit = limit,
                        !.time_posted = time_posted, !.sessions = 1,
                        !.pending = [k \in Keywords |-> {}],
                        !.fetched = [k \in Keywords |-> 0],
                        !.details = [i \in Urls |-> "none"]]

\* main.py 82, 111-113: initialize() is done; if it (or the start of the
\* server) raised, the outer except answers 500
initialize_done ==
  /\ sx.pc = "init"
  /\ UNCHANGED <<cvars, bvars, cx, fx>>
  /\ \E ok \in BOOLEAN :
       sx' = IF ok THEN [sx EXCEPT !.pc = "loop"]
                   ELSE [sx EXCEPT !.pc = "done", !.resp = "500"]

\* main.py 85-94, linkedin_utils.py 40-66: the for loop takes the next
\* keyword and search_jobs awaits session.call_tool("search_jobs")
keyword_start ==
  /\ sx.pc = "loop"
  /\ sx.k < sx.n
  /\ UNCHANGED <<cvars, bvars, cx, fx>>
  /\ sx' = [sx EXCEPT !.pc = "search", !.k = sx.k + 1,
                      !.started = Append(sx.started, sx.k + 1),
                      !.urls = 0, !.noid = {}, !.calls = {},
                      !.details = [i \in Urls |-> "none"],
                      !.arguments = SearchArguments(sx.k + 1, sx.limit, "India",
                                                    sx.time_posted)]

\* the elements of S in increasing order
Ascending(S) == SelectSeq([i \in Urls |-> i], LAMBDA i : i \in S)

\* the detail records of the URLs S of keyword k, in the order of the URLs
Records(k, S) == [j \in 1..Len(Ascending(S)) |-> <<"record", k, Ascending(S)[j]>>]

\* linkedin_utils.py 135, 139: search_jobs returns the pair (jobs, info)
Returns(jobs, info) == [how |-> "returned", jobs |-> jobs, info |-> info]

\* main.py 88-99: search_jobs has ended with ret.  What it returns is a
\* pair, which is truthy whatever it holds: all_job_urls.extend(urls)
\* appends its two members, the list of jobs and the info mapping.  An
\* exception is printed.
Extended(x, ret) ==
  IF ret.how = "raised"
  THEN [x EXCEPT !.ret = ret]
  ELSE [x EXCEPT !.ret = ret,
                 !.jobs = x.jobs \o << <<"list", ret.jobs>>, <<"dict", ret.info>> >>]

\* variant: the detail fetches are started and not awaited
search_returns_detached ==
  /\ sx.pc = "search"
  /\ UNCHANGED <<cvars, bvars, cx, fx>>
  /\ LET x == [sx EXCEPT !.searched = sx.searched \cup {sx.k}] IN
       \/ sx' = [Extended(x, Returns(<<>>, "error")) EXCEPT !.pc = "pause"]
       \/ \E urls \in 0..MaxDetails + 1 :
            \E noid \in SUBSET (1..urls) :
              LET tasks == 1..Min(urls, sx.limit) IN
              sx' = [Extended(x, Returns(<<>>, "debug_info")) EXCEPT
                       !.pc = "pause",
                       !.urls = urls,
                       !.noid = noid,
                       !.calls = tasks \ noid,
                       !.pending[sx.k] = tasks \ noid]

\* variant: every URL found is fetched
search_returns_unsliced ==
  /\ sx.pc = "search"
  /\ UNCHANGED <<cvars, bvars, cx, fx>>
  /\ LET x == [sx EXCEPT !.searched = sx.searched \cup {sx.k}] IN
       \/ sx' = [Extended(x, Returns(<<>>, "error")) EXCEPT !.pc = "pause"]
       \/ \E urls \in 0..MaxDetails + 1 :
            \E noid \in SUBSET (1..urls) :
              IF urls = 0
              THEN sx' = [Extended(x, Returns(<<>>, "debug_info")) EXCEPT !.pc = "pause"]
              ELSE LET tasks == 1..urls IN
                   sx' = [x EXCEPT !.pc = "details",
                                   !.urls = urls,
                                   !.noid = noid,
                                   !.calls = tasks \ noid,
                                   !.pending[sx.k] = tasks \ noid]

\* linkedin_utils.py 66-131, 137-139: the search_jobs tool call ends.  It
\* raised: the except returns ([], error).  It gave no URL: return [], debug_info.
\* Else one get_details per URL of job_urls[:limit] is handed to
\* asyncio.gather, which is awaited; a get_details that finds no job id in
\* its URL returns None at once, the others await their get_job_details call.
search_returns ==
  /\ sx.pc = "search"
  /\ UNCHANGED <<cvars, bvars, cx, fx>>
  /\ LET x == [sx EXCEPT !.searched = sx.searched \cup {sx.k}] IN
       \/ sx' = [Extended(x, Returns(<<>>, "error")) EXCEPT !.pc = "pause"]
       \/ \E urls \in 0..MaxDetails + 1 :
            \E noid \in SUBSET (1..urls) :
              IF urls = 0
              THEN sx' = [Extended(x, Returns(<<>>, "debug_info")) EXCEPT !.pc = "pause"]
              ELSE LET tasks == 1..Min(urls, sx.limit) IN
                   sx' = [x EXCEPT !.pc = "details",
                                   !.urls = urls,
                                   !.noid = noid,
                                   !.calls = tasks \ noid,
                                   !.pending[sx.k] = tasks \ noid]

\* linkedin_utils.py 113-125: one get_job_details call ends; get_details
\* returns the details when they decode to a mapping, None otherwise (no
\* content, another JSON value, an exception)
detail_done ==
  /\ UNCHANGED <<cvars, bvars, cx, fx>>
  /\ \E k \in Keywords :
       /\ k <= sx.n
       /\ \E i \in sx.pending[k], res \in DetailResults :
            sx' = [sx EXCEPT !.pending[k] = sx.pending[k] \ {i},
                             !.fetched[k] = sx.fetched[k] + 1,
                             !.details[i] = res]

\* what get_details returned for URL i is not None
NotNone(x, i) == x.details[i] = "mapping"

\* linkedin_utils.py 131-135: gather is done when every get_details has
\* ended; search_jobs returns (valid_jobs, debug_info)
gather_done ==
  /\ sx.pc = "details"
  /\ sx.pending[sx.k] = {}
  /\ UNCHANGED <<cvars, bvars, cx, fx>>
  /\ LET valid_jobs == Records(sx.k, {i \in 1..Min(sx.urls, sx.limit) :
                                        NotNone(sx, i)})
     IN sx' = [Extended(sx, Returns(valid_jobs, "debug_info")) EXCEPT
                 !.pc = "pause", !.found = sx.found \o valid_jobs]

\* main.py 101-102: asyncio.sleep(1) has elapsed
sleep_elapsed ==
  /\ sx.pc = "pause"
  /\ UNCHANGED <<cvars, bvars, cx, fx>>
  /\ sx' = [sx EXCEPT !.pc = "loop", !.paused = sx.paused \cup {sx.k}]

\* main.py 104-108: the loop is over, the session is left and the answer is
\* status success with count = len(all_job_urls)
search_responds ==
  /\ sx.pc = "loop"
  /\ sx.k = sx.n
  /\ UNCHANGED <<cvars, bvars, cx, fx>>
  /\ sx' = [sx EXCEPT !.pc = "done", !.resp = "success", !.count = Len(sx.jobs)]

NextSearch ==
  \/ search_endpoint
  \/ initialize_done
  \/ keyword_start
  \/ search_returns
  \/ detail_done
  \/ gather_done
  \/ sleep_elapsed
  \/ search_responds

SpecSearch == Init /\ [][NextSearch]_vars

\* everything done for keyword k has finished
KeywordFinished(k) ==
  /\ k \in sx.searched
  /\ sx.pending[k] = {}
  /\ k \in sx.paused

\* the search of keyword k or one of its detail fetches is in flight
KeywordActive(k) ==
  /\ \E i \in DOMAIN sx.started : sx.started[i] = k
  /\ k \notin sx.searched \/ sx.pending[k] # {}

\* C27: the keywords of one /search request are searched one after the
\* other on one session, in the order given: when the search of keyword
\* k+1 is started, the search of keyword k and all its detail fetches have
\* finished and the pause after it has elapsed; the activities of two
\* keywords never overlap.
C27_KeywordsSequential ==
  /\ [](sx.pc # "idle" =>
          /\ sx.sessions = 1
          /\ sx.started = [i \in 1..Len(sx.started) |-> i]
          /\ Cardinality({k \in Keywords : KeywordActive(k)}) <= 1)
  /\ [][(sx.pc # "idle" /\ Len(sx'.started) > Len(sx.started)) =>
          /\ Len(sx'.started) = Len(sx.started) + 1
          /\ \A k \in Keywords : ~KeywordActive(k)
          /\ \A i \in DOMAIN sx.started : KeywordFinished(sx.started[i])]_vars

\* the second keyword is being searched after the first had two detail
\* fetches
C27_Witness ==
  /\ sx.pc = "search"
  /\ sx.started = <<1, 2>>
  /\ sx.fetched[1] = 2
  /\ KeywordFinished(1)

\* C36: the jobs of the answer of /search are exactly the detail records
\* found for the keywords, in keyword order, and count is their number; a
\* keyword whose search fails or finds nothing adds no element.
C36_JobsAreTheRecordsFound ==
  sx.resp = "success" =>
    /\ sx.jobs = sx.found
    /\ sx.count = Len(sx.found)
    /\ Len(sx.started) = sx.n

\* the URLs of the running search_jobs that get_details is run for and in
\* which a job id is found
Fetchable == {i \in 1..sx.urls : i <= sx.limit /\ i \notin sx.noid}

\* C37: linkedin_utils.search_jobs never raises; it calls get_job_details
\* at most limit times, once for each of the first limit URLs in which a
\* job id is found, and returns exactly the records of the calls whose
\* answer decoded to a mapping (none when the search call failed).
C37_SearchJobsNeverRaises ==
  sx.pc \notin {"idle", "init"} =>
    /\ sx.ret.how # "raised"
    /\ Cardinality(sx.calls) <= sx.limit
    /\ sx.pc \in {"details", "pause"} => sx.calls = Fetchable
    /\ \A k \in Keywords : sx.pending[k] \subseteq sx.calls
    /\ (sx.pc = "pause" /\ sx.ret.how = "returned") =>
         sx.ret.jobs = Records(sx.k, {i \in sx.calls : sx.details[i] = "mapping"})
    /\ sx.ret.info = "error" => sx.ret.jobs = <<>>

\* search_jobs found three URLs, one without a job id, with limit 2: one
\* call was made, it gave a mapping, and that record was returned
C37_Witness ==
  /\ sx.pc = "pause"
  /\ sx.limit = 2
  /\ sx.urls = 3
  /\ sx.noid = {1}
  /\ sx.calls = {2}
  /\ sx.ret = Returns(<< <<"record", sx.k, 2>> >>, "debug_info")

\* C40: whatever time_posted is, the arguments of the search_jobs tool call
\* of linkedin_utils.search_jobs have exactly the keys keywords, location
\* and limit.
C40_TimePostedNeverSent ==
  sx.started # <<>> => DOMAIN sx.arguments = {"keywords", "location", "limit"}

\* a search was called with time_posted set
C40_Witness ==
  /\ sx.time_posted = "r86400"
  /\ sx.pc = "search"
  /\ sx.arguments = [keywords |-> 1, location |-> "India", limit |-> sx.limit]

\* ===================== backend: /api/session and get_server_parameters()
\* A text is the sequence of its characters; "LF" and "CR" are the line
\* feed and the carriage return.  The file is opened in text mode with
\* encoding utf-8 for writing and for reading.
Whitespace == {" ", "LF", "CR"}

\* whitespace a client may leave around the cookie it posts
Pads == UNION {[1..n -> Whitespace] : n \in 0..MaxPad}

\* cookie values (the empty one included); blanks inside are kept
Tokens == {<<>>, <<"a">>, <<"b">>, <<"a", " ", "b">>, <<"a", "LF", "b">>}

\* what a client may post as li_at
PostedCookies == {l \o m \o r : l \in Pads, m \in Tokens, r \in Pads}

\* f.write in text mode: each line feed is written as os.linesep, which is
\* the line feed on the POSIX hosts the backend runs on
WriteText(c) == [i \in 1..Len(c) |-> IF c[i] = "LF" THEN "LF" ELSE c[i]]

RECURSIVE ReadText(_)
\* f.read() in text mode: CR LF and a lone CR are read as a line feed
ReadText(b) ==
  IF b = <<>> THEN <<>>
  ELSE IF Head(b) = "CR"
       THEN IF Len(b) > 1 /\ b[2] = "LF"
            THEN <<"LF">> \o ReadText(Tail(Tail(b)))
            ELSE <<"LF">> \o ReadText(Tail(b))
       ELSE <<Head(b)>> \o ReadText(Tail(b))

RECURSIVE LStrip(_)
LStrip(c) == IF c # <<>> /\ Head(c) \in Whitespace THEN LStrip(Tail(c)) ELSE c

RECURSIVE RStrip(_)
RStrip(c) ==
  IF c # <<>> /\ c[Len(c)] \in Whitespace THEN RStrip(SubSeq(c, 1, Len(c) - 1)) ELSE c

\* str.strip()
Strip(c) == RStrip(LStrip(c))

\* main.py 51-62: POST /api/session writes li_at to the cookie file,
\* replacing what was there
session_endpoint ==
  /\ UNCHANGED <<cvars, bvars, cx, sx>>
  /\ \E li_at \in PostedCookies :
       fx' = [fx EXCEPT !.exists = TRUE, !.file = WriteText(li_at),
                        !.posted = li_at, !.ran = FALSE]

\* the temporary directory is cleaned, or the host restarts (environment)
cookie_file_removed ==
  /\ fx.exists
  /\ UNCHANGED <<cvars, bvars, cx, sx>>
  /\ fx' = [fx EXCEPT !.exists = FALSE, !.file = <<>>, !.ran = FALSE]

\* variant: the cookie is used as it was read
get_server_parameters_unstripped ==
  /\ UNCHANGED <<cvars, bvars, cx, sx>>
  /\ LET stored == IF fx.exists THEN ReadText(fx.file) ELSE <<>> IN
       fx' = [fx EXCEPT !.ran = TRUE,
                        !.env = IF fx.exists /\ stored # <<>>
                                THEN [set |-> TRUE, value |-> stored]
                                ELSE fx.inherited]

\* linkedin_utils.py 9-34: env = os.environ.copy(); if the cookie file
\* exists and its text, stripped, is not empty, env["LINKEDIN_COOKIE"] is
\* that text
get_server_parameters ==
  /\ UNCHANGED <<cvars, bvars, cx, sx>>
  /\ LET stored == IF fx.exists THEN Strip(ReadText(fx.file)) ELSE <<>> IN
       fx' = [fx EXCEPT !.ran = TRUE,
                        !.env = IF fx.exists /\ stored # <<>>
                                THEN [set |-> TRUE, value |-> stored]
                                ELSE fx.inherited]

\* the backend starts with or without LINKEDIN_COOKIE in its environment
InitCookie ==
  /\ transport = "stdio"
  /\ process = None
  /\ alive = FALSE
  /\ request_id = 0
  /\ started = 0
  /\ terminated = [p \in 1..MaxProc |-> 0]
  /\ killed = {}
  /\ wire = <<>>
  /\ session = "Unconnected"
  /\ pc = [t \in Tasks |-> "idle"]
  /\ reqId = [t \in Tasks |-> None]
  /\ skipped = [t \in Tasks |-> 0]
  /\ last = [op |-> "none", proc |-> None, reqId |-> None, outcome |-> "none",
             line |-> NoResp, skipped |-> 0]
  /\ BrowserIdle
  /\ cx = CxIdle
  /\ sx = SxIdle
  /\ \E inherited \in {[set |-> FALSE, value |-> <<>>], [set |-> TRUE, value |-> <<"e">>]} :
       fx = [FxIdle EXCEPT !.inherited = inherited, !.env = inherited]

NextCookie ==
  \/ session_endpoint
  \/ cookie_file_removed
  \/ get_server_parameters

SpecCookie == InitCookie /\ [][NextCookie]_vars

====
